---- MODULE Spec2Model ----
(***************************************************************************)
(* A model of the artifact-synthesis engine of tnc_map_helper: the XML     *)
(* test-file generators of application/main_window.py (template            *)
(* repetition, Extra-Record-aware value injection), the CSV placeholder    *)
(* filler of application/csv_parser.py, and the location parser and item   *)
(* resolver of application/spreadsheet_parser.py.                          *)
(*                                                                         *)
(* Python strings are TLA+ strings; Ch/SubSeq/Len/\o give character-level  *)
(* access.  An xml.etree Element is a record [tag, text, kids]; the        *)
(* identity of an element is its index path from the root (elements are    *)
(* only appended or inserted while a pass runs, never reordered).          *)
(***************************************************************************)
EXTENDS Integers, Sequences, FiniteSets, TLC

VARIABLES
    stage,          \* position inside one _generate_rsx_*_test_file run
    kind,           \* document kind being generated: 855, 856 or 810
    tmpl,           \* which template file content is on disk
    parsed_items,   \* MainWindow.parsed_items
    scenarios,      \* number_of_lines of the scenarios that include the kind
    root,           \* the ElementTree being built
    hlog,           \* ghost: container instance used for every header item
    dlog,           \* ghost: per repetition, value and instance of every detail item
    round_up,       \* whether float() of an inexact decimal lies above the decimal
    written,        \* the document the last finished run wrote to the output file
    runs,           \* the number of finished runs
    csv_rows,       \* _generate_csv_test_file: the rows csv.reader gave
    csv_items,      \* _generate_csv_test_file: the items of the spreadsheet
    csv_out,        \* what the call produced: the text written, or the error raised
    zip_files,      \* CSVArchiveParser.parse: the members of the archive, in namelist order
    zip_scenarios,  \* the scenarios handed to parse, updated in place
    zip_pos,        \* the member the loop over csv_files is at
    zip_errors,     \* the list "errors"
    zip_updated,    \* the set "updated_scenarios"
    zip_out,        \* what parse returned
    db_rows,        \* _match_with_database: the rows of table item_properties
    db_item,        \* _match_with_database: the Item being resolved
    db_out,         \* the Item and the error list after the call
    cat_rows,       \* Database: the rows of table item_properties
    cat_seq,        \* the largest item_properties_id ever given (AUTOINCREMENT)
    cat_out,        \* the last call of create_item, update_item or delete_item
    cat_calls,      \* the number of calls made
    window,         \* the fields of the MainWindow that the three input blocks keep
    output,         \* the files process_data left in the folder of the CSV test files
    edi_text,       \* the location string of a spreadsheet column
    edi_prev,       \* SpreadsheetParser.parse: the items of the columns before it
    edi_out,        \* the triple the parser or the column scan produced
    sheet_cols,     \* SpreadsheetParser.parse: the columns of the sheet from column B on
    sheet_pos,      \* the column the scan is at
    sheet_items,    \* the list "items"
    sheet_errors,   \* the list "all_errors"
    sheet_out       \* what parse returned

xmlVars == <<stage, kind, tmpl, parsed_items, scenarios, root, hlog, dlog, round_up, written,
            runs>>
csvVars == <<csv_rows, csv_items, csv_out, zip_files, zip_scenarios, zip_pos, zip_errors,
            zip_updated, zip_out>>
catVars == <<cat_rows, cat_seq, cat_out, cat_calls>>
uiVars == <<window, output>>
dbVars == <<db_rows, db_item, db_out, catVars, uiVars>>
ediVars == <<edi_text, edi_prev, edi_out, sheet_cols, sheet_pos, sheet_items, sheet_errors,
            sheet_out>>
vars == <<xmlVars, csvVars, dbVars, ediVars>>

-----------------------------------------------------------------------------
(* Bounds of the model *)

MaxLines == 2       \* largest number_of_lines of a scenario
MaxItems == 2       \* longest parsed_items list
MaxRuns == 2        \* most runs of a generator on the same inputs

-----------------------------------------------------------------------------
(* Python str helpers *)

Ch(s, i) == SubSeq(s, i, i)

Min(S) == CHOOSE m \in S : \A o \in S : m <= o

StartsWith(s, p) == Len(p) <= Len(s) /\ SubSeq(s, 1, Len(p)) = p

\* str.endswith
EndsWith(s, p) == Len(p) <= Len(s) /\ SubSeq(s, Len(s) - Len(p) + 1, Len(s)) = p

IsSpace(c) == c \in {" "}

\* str.strip (the model's only whitespace character is the blank)
RECURSIVE LStrip(_)
LStrip(s) ==
    IF Len(s) > 0 /\ IsSpace(Ch(s, 1)) THEN LStrip(SubSeq(s, 2, Len(s))) ELSE s

RECURSIVE RStrip(_)
RStrip(s) ==
    IF Len(s) > 0 /\ IsSpace(Ch(s, Len(s))) THEN RStrip(SubSeq(s, 1, Len(s) - 1)) ELSE s

Strip(s) == RStrip(LStrip(s))

\* str(int) for a non-negative int
DigitChars == <<"0", "1", "2", "3", "4", "5", "6", "7", "8", "9">>

RECURSIVE StrOfInt(_)
StrOfInt(n) ==
    IF n < 10 THEN DigitChars[n + 1]
    ELSE StrOfInt(n \div 10) \o DigitChars[(n % 10) + 1]

Digits == {DigitChars[d] : d \in 1..Len(DigitChars)}

IsDigit(c) == c \in Digits

IsDigits(s) == Len(s) > 0 /\ \A i \in 1..Len(s) : IsDigit(Ch(s, i))

DigitValue(c) == (CHOOSE d \in 1..Len(DigitChars) : DigitChars[d] = c) - 1

\* int(s) for a string of decimal digits
RECURSIVE IntOf(_)
IntOf(s) ==
    IF Len(s) = 1 THEN DigitValue(s)
    ELSE IntOf(SubSeq(s, 1, Len(s) - 1)) * 10 + DigitValue(Ch(s, Len(s)))

\* Python None and SQL NULL: a value apart from every modelled string
Null == "<None>"

SeqToken == "{sequential_number}"

\* str.replace(old, new): every non-overlapping occurrence, left to right
RECURSIVE Replace(_, _, _)
Replace(s, old, new) ==
    IF Len(s) = 0 THEN s
    ELSE IF StartsWith(s, old)
         THEN new \o Replace(SubSeq(s, Len(old) + 1, Len(s)), old, new)
         ELSE Ch(s, 1) \o Replace(SubSeq(s, 2, Len(s)), old, new)

\* list.index: position of the first equal element, 0 when absent (ValueError)
IndexOf(seq, x) ==
    LET S == {i \in 1..Len(seq) : seq[i] = x}
    IN IF S = {} THEN 0 ELSE Min(S)

Front(seq) == SubSeq(seq, 1, Len(seq) - 1)
Last(seq) == seq[Len(seq)]

-----------------------------------------------------------------------------
(* xml.etree.ElementTree elements *)

Elem(tag, kids) == [tag |-> tag, text |-> "", kids |-> kids]
Leaf(tag, text) == [tag |-> tag, text |-> text, kids |-> <<>>]

NotFound == <<0>>

RECURSIVE Get(_, _)
Get(n, ip) == IF ip = <<>> THEN n ELSE Get(n.kids[Head(ip)], Tail(ip))

RECURSIVE Put(_, _, _)
Put(n, ip, sub) ==
    IF ip = <<>> THEN sub
    ELSE [n EXCEPT !.kids[Head(ip)] = Put(n.kids[Head(ip)], Tail(ip), sub)]

\* "for child in current: if child.tag.endswith(part): found = child; break"
FirstChild(n, part) ==
    LET S == {i \in 1..Len(n.kids) : EndsWith(n.kids[i].tag, part)}
    IN IF S = {} THEN 0 ELSE Min(S)

\* Element.iter(): the index paths of n and its descendants in document order
RECURSIVE Iter(_)
RECURSIVE IterKids(_, _)
Iter(n) == <<<<>>>> \o IterKids(n, 1)
IterKids(n, i) ==
    IF i > Len(n.kids) THEN <<>>
    ELSE LET sub == Iter(n.kids[i])
         IN [k \in 1..Len(sub) |-> <<i>> \o sub[k]] \o IterKids(n, i + 1)

\* the elements of n.iter() whose tag ends with name
IterTagged(n, name) ==
    SelectSeq(Iter(n), LAMBDA ip : EndsWith(Get(n, ip).tag, name))

\* MainWindow._find_element_by_path: the index path of the element, or NotFound
RECURSIVE FindElementByPath(_, _)
FindElementByPath(n, path_parts) ==
    IF path_parts = <<>> THEN <<>>
    ELSE LET i == FirstChild(n, Head(path_parts))
         IN IF i = 0 THEN NotFound
            ELSE LET r == FindElementByPath(n.kids[i], Tail(path_parts))
                 IN IF r = NotFound THEN NotFound ELSE <<i>> \o r

\* a faulty variant of SetXmlValueByPath that sets the text of the last
\* element it reached when a part is not found: the property C21 of a path
\* the document lacks must tell it from the code
RECURSIVE SetXmlValueByPathNearest(_, _, _)
SetXmlValueByPathNearest(n, path_parts, value) ==
    IF path_parts = <<>> \/ FirstChild(n, Head(path_parts)) = 0
    THEN [n EXCEPT !.text = value]
    ELSE [n EXCEPT !.kids[FirstChild(n, Head(path_parts))] =
                       SetXmlValueByPathNearest(@, Tail(path_parts), value)]

\* MainWindow._set_xml_value_by_path
SetXmlValueByPath(n, path_parts, value) ==
    IF path_parts = <<>> THEN n
    ELSE LET ip == FindElementByPath(n, path_parts)
         IN IF ip = NotFound THEN n
            ELSE Put(n, ip, [Get(n, ip) EXCEPT !.text = value])

\* MainWindow._clear_order_ack_xml_texts
RECURSIVE ClearXmlTexts(_)
ClearXmlTexts(n) ==
    [tag |-> n.tag, text |-> "",
     kids |-> [i \in 1..Len(n.kids) |-> ClearXmlTexts(n.kids[i])]]

-----------------------------------------------------------------------------
(* Document kinds and templates.  "856c" is the consolidated shipment file. *)

Kinds == {"855", "856", "810", "856c"}

DocRootName(k) == CASE k = "855" -> "OrderAck"
                    [] k = "810" -> "Invoice"
                    [] OTHER -> "Shipment"

\* the per-line repeating container of a kind
RepeatTag(k) == IF k \in {"855", "810"} THEN "LineItem" ELSE "ItemLevel"

AddressBlock ==
    Elem("Address", <<Leaf("AddressTypeCode", "XX"),
                      Leaf("LocationCodeQualifier", ""),
                      Leaf("AddressName", "sample")>>)

ProductBlock ==
    Elem("ProductOrItemDescription",
         <<Leaf("ProductCharacteristicCode", "08"), Leaf("ProductDescription", "sample")>>)

\* the acknowledgement of a line: its status code and its schedule
StatusBlock ==
    Elem("LineItemAcknowledgement",
         <<Leaf("ItemStatusCode", "IA"), Leaf("ItemScheduleQty", "1"),
           Leaf("ItemScheduleDate", "sample")>>)

\* templates/OrderAck.xml and templates/Invoice.xml: Header, one LineItem and,
\* in the "summary" variant, a Summary that follows the LineItem; in the
\* "status" variant the LineItem has a LineItemAcknowledgement
LineDocTemplate(k, variant) ==
    LET header == Elem("Header",
                       <<Elem(IF k = "855" THEN "OrderHeader" ELSE "InvoiceHeader",
                              <<Leaf("TradingPartnerId", ""), Leaf("Vendor", "sample")>>),
                         AddressBlock>>)
        line == Elem("LineItem",
                     <<Elem(IF k = "855" THEN "OrderLine" ELSE "InvoiceLine",
                            <<Leaf("OrderQty", "1")>>),
                       ProductBlock>>
                     \o (IF variant = "status" THEN <<StatusBlock>> ELSE <<>>))
    IN Elem(DocRootName(k),
            IF variant = "summary"
            THEN <<header, line, Elem("Summary", <<Leaf("TotalLineItemNumber", "")>>)>>
            ELSE <<header, line>>)

\* templates/Shipment.xml: Header, one OrderLevel holding its header, a
\* Reference and one PackLevel whose ItemLevel is, in the "summary" variant,
\* followed by a sibling
ShipmentTemplate(variant) ==
    LET header == Elem("Header",
                       <<Elem("ShipmentHeader",
                              <<Leaf("TradingPartnerId", ""), Leaf("ShipmentIdentification", "")>>),
                         AddressBlock>>)
        item == Elem("ItemLevel",
                     <<Elem("ShipmentLine", <<Leaf("ShipQty", "1")>>), ProductBlock>>)
        pack == Elem("PackLevel",
                     IF variant = "summary"
                     THEN <<Elem("Pack", <<Leaf("PackLevelType", "P")>>), item,
                            Elem("PhysicalDetails", <<Leaf("PackWeight", "1")>>)>>
                     ELSE <<Elem("Pack", <<Leaf("PackLevelType", "P")>>), item>>)
        order == Elem("OrderLevel",
                      <<Elem("OrderHeader",
                             <<Leaf("PurchaseOrderNumber", ""), Leaf("Vendor", "sample")>>),
                        Elem("Reference", <<Leaf("ReferenceQual", "XX"), Leaf("ReferenceID", "sample")>>),
                        pack>>)
    IN Elem("Shipment", <<header, order, Elem("Summary", <<Leaf("TotalLineItemNumber", "")>>)>>)

\* ET.parse(template_path).getroot()
Template(k, variant) ==
    IF k \in {"855", "810"} THEN LineDocTemplate(k, variant) ELSE ShipmentTemplate(variant)

TemplateVariants == {"bare", "summary"}

-----------------------------------------------------------------------------
(* Template Repetition Engine *)

\* range(max_lines) copies of the stamp
Copies(stamp, max_lines) == [i \in 1..max_lines |-> stamp]

\* MainWindow._clone_order_ack_line_items, on the subtree n
CloneOrderAckLineItems(n, max_lines) ==
    LET hits == IterTagged(n, "LineItem")
    IN IF hits = <<>> \/ hits[1] = <<>> THEN n
       ELSE LET first == hits[1]
                pip == Front(first)
                parent == Get(n, pip)
                stamp == Get(n, first)
                kept == SelectSeq(parent.kids, LAMBDA c : c.tag # stamp.tag)
            IN Put(n, pip, [parent EXCEPT !.kids = kept \o Copies(stamp, max_lines)])

\* MainWindow._clone_invoice_line_items: the copies go in at the index the
\* first LineItem had (list.insert past the end appends)
CloneInvoiceLineItems(n, max_lines) ==
    LET hits == IterTagged(n, "LineItem")
    IN IF hits = <<>> \/ hits[1] = <<>> THEN n
       ELSE LET first == hits[1]
                pip == Front(first)
                parent == Get(n, pip)
                stamp == Get(n, first)
                insert_index == Last(first) - 1
                kept == SelectSeq(parent.kids, LAMBDA c : c.tag # stamp.tag)
                at == IF insert_index > Len(kept) THEN Len(kept) ELSE insert_index
            IN Put(n, pip, [parent EXCEPT !.kids =
                               SubSeq(kept, 1, at) \o Copies(stamp, max_lines)
                                 \o SubSeq(kept, at + 1, Len(kept))])

\* MainWindow._clone_shipment_item_levels, on the subtree n
CloneShipmentItemLevels(n, max_lines) ==
    LET hits == IterTagged(n, "ItemLevel")
    IN IF hits = <<>> \/ hits[1] = <<>> THEN n
       ELSE LET first == hits[1]
                pip == Front(first)
                parent == Get(n, pip)
                stamp == Get(n, first)
                kept == SelectSeq(parent.kids, LAMBDA c : c.tag # stamp.tag)
            IN Put(n, pip, [parent EXCEPT !.kids = kept \o Copies(stamp, max_lines)])

\* max(...) over the scenarios' number_of_lines, default 0
RECURSIVE MaxOf(_)
MaxOf(seq) ==
    IF seq = <<>> THEN 0
    ELSE LET m == MaxOf(Tail(seq)) IN IF Head(seq) >= m THEN Head(seq) ELSE m

\* a faulty variant of MaxLinesOf that forgets the floor of one: the
\* repetition count property C3 must tell it from the code
MaxLinesOfNoFloor(scens) ==
    MaxOf([i \in 1..Len(scens) |-> scens[i].number_of_lines])

\* "max_lines = max(...); if max_lines <= 0: max_lines = 1"
MaxLinesOf(scens) ==
    LET m == MaxOf([i \in 1..Len(scens) |-> scens[i].number_of_lines])
    IN IF m <= 0 THEN 1 ELSE m

\* a faulty variant of LinesOrOne that gives every block two lines: the
\* block property C12 must tell it from the code
LinesAlwaysTwo(scenario) == 2

\* "max_lines = scenario.number_of_lines or 1" of the consolidated generator
LinesOrOne(scenario) ==
    IF scenario.number_of_lines = 0 THEN 1 ELSE scenario.number_of_lines

\* the scenarios a generator selects (every modelled scenario includes every
\* document kind; is_consolidated separates the two shipment generators)
ScenariosFor(k, scens) ==
    CASE k = "856"  -> SelectSeq(scens, LAMBDA s : ~s.is_consolidated)
      [] k = "856c" -> SelectSeq(scens, LAMBDA s : s.is_consolidated)
      [] OTHER -> scens

\* _generate_rsx_856_consolidated_test_file: one OrderLevel per consolidated
\* scenario, each cloned to its own line count and keyed, appended in order
RECURSIVE OrderLevelsFor(_, _)
OrderLevelsFor(stamp, scens) ==
    IF scens = <<>> THEN <<>>
    ELSE <<SetXmlValueByPath(CloneShipmentItemLevels(stamp, LinesOrOne(Head(scens))),
                             <<"OrderHeader", "PurchaseOrderNumber">>, Head(scens).key)>>
         \o OrderLevelsFor(stamp, Tail(scens))

BuildOrderLevels(n, scens) ==
    LET hits == IterTagged(n, "OrderLevel")
    IN IF hits = <<>> \/ hits[1] = <<>> THEN n
       ELSE LET first == hits[1]
                pip == Front(first)
                parent == Get(n, pip)
                stamp == Get(n, first)
                kept == SelectSeq(parent.kids, LAMBDA c : c.tag # stamp.tag)
            IN Put(n, pip, [parent EXCEPT !.kids = kept \o OrderLevelsFor(stamp, scens)])

\* the cloning step of the generator of kind k
Expand(k, n, scens) ==
    CASE k = "855"  -> CloneOrderAckLineItems(n, MaxLinesOf(scens))
      [] k = "810"  -> CloneInvoiceLineItems(n, MaxLinesOf(scens))
      [] k = "856"  -> CloneShipmentItemLevels(n, MaxLinesOf(scens))
      [] k = "856c" -> BuildOrderLevels(n, scens)

-----------------------------------------------------------------------------
(* Items (spreadsheet_parser.Item, the fields the generators read) *)

\* str.split(sep) for a one-character separator: the pieces between the
\* occurrences of sep, empty pieces included
CutAt(cuts, k) == CHOOSE i \in cuts : Cardinality({j \in cuts : j < i}) = k - 1

Pieces(s, cuts, n) ==
    [k \in 1..(n + 1) |->
        SubSeq(s, IF k = 1 THEN 1 ELSE CutAt(cuts, k - 1) + 1,
                  IF k = n + 1 THEN Len(s) ELSE CutAt(cuts, k) - 1)]

SepPositions(s, sep) == {i \in 1..Len(s) : Ch(s, i) = sep}

Split(s, sep) == Pieces(s, SepPositions(s, sep), Cardinality(SepPositions(s, sep)))

\* item_properties_id 0 stands for None (an item that was not resolved)
MkItem(id, value, detail, p855, p856, p810, xtag, xqual) ==
    [item_properties_id |-> id, tli_value |-> value, is_on_detail_level |-> detail,
     rsx_path_855 |-> p855, rsx_path_856 |-> p856, rsx_path_810 |-> p810,
     extra_record_defining_rsx_tag |-> xtag, extra_record_defining_qual |-> xqual]

\* a header item under Header/Address of every document kind
AddressItem(id, value, leaf, xtag, xqual) ==
    MkItem(id, value, FALSE,
           "OrderAck_Header_Address_" \o leaf, "Shipment_Header_Address_" \o leaf,
           "Invoice_Header_Address_" \o leaf, xtag, xqual)

\* a detail item inside the product description block of the line container
ProductItem(id, value, xtag, xqual) ==
    MkItem(id, value, TRUE,
           "OrderAck_LineItem_ProductOrItemDescription_ProductDescription",
           "Shipment_OrderLevel_PackLevel_ItemLevel_ProductOrItemDescription_ProductDescription",
           "Invoice_LineItem_ProductOrItemDescription_ProductDescription", xtag, xqual)

\* the catalog rows the modelled spreadsheets resolve to
ItemUniverse ==
    << AddressItem(1, "ShipTo", "AddressName", "AddressTypeCode", "ST"),
       AddressItem(2, "Vendor", "AddressName", " AddressTypeCode", "VN "),
       AddressItem(3, "92", "LocationCodeQualifier", "AddressTypeCode", "ST"),
       AddressItem(4, "N92", "AddressName", "LocationCodeQualifier", "92"),
       AddressItem(5, "VN", "TypeCode", "AddressTypeCode", "ST"),
       MkItem(6, "V1", FALSE, "OrderAck_Header_OrderHeader_Vendor",
              "Shipment_OrderLevel_OrderHeader_Vendor",
              "Invoice_Header_InvoiceHeader_Vendor", "", ""),
       MkItem(7, "QTY-{sequential_number}", TRUE, "OrderAck_LineItem_OrderLine_OrderQty",
              "Shipment_OrderLevel_PackLevel_ItemLevel_ShipmentLine_ShipQty",
              "Invoice_LineItem_InvoiceLine_OrderQty", "", ""),
       ProductItem(8, "PART-{sequential_number}", "ProductCharacteristicCode", "08"),
       ProductItem(9, "ALT-{sequential_number}", "ProductCharacteristicCode", "09"),
       MkItem(0, "", FALSE, "", "", "", "", "") >>

\* a header item of the shipment inside the order block, with an Extra Record
OrderReferenceItem ==
    MkItem(10, "REF1", FALSE, "", "Shipment_OrderLevel_Reference_ReferenceID", "",
           "ReferenceQual", "PO")

\* a header item and a detail item with Extra Records whose repeated
\* elements, Contacts and Notes, are in none of the templates
ContactItem ==
    MkItem(11, "BUYER", FALSE, "OrderAck_Header_Contacts_ContactName",
           "Shipment_Header_Contacts_ContactName", "Invoice_Header_Contacts_ContactName",
           "ContactTypeCode", "BD")
NoteItem ==
    MkItem(12, "NOTE-{sequential_number}", TRUE, "OrderAck_LineItem_Notes_Note",
           "Shipment_OrderLevel_PackLevel_ItemLevel_Notes_Note", "Invoice_LineItem_Notes_Note",
           "NoteCode", "GEN")

\* items whose path names an element the templates do not have: the leaf or
\* the first segment of an ungrouped item, the parent of the repeated element
\* of an Extra Record item; header items 13 to 15, detail items 16 and 17
MismatchItems ==
    << MkItem(13, "LOST", FALSE, "OrderAck_Header_OrderHeader_Missing",
              "Shipment_OrderLevel_OrderHeader_Missing",
              "Invoice_Header_InvoiceHeader_Missing", "", ""),
       MkItem(14, "LOST", FALSE, "OrderAck_Nowhere_Vendor", "Shipment_Nowhere_Vendor",
              "Invoice_Nowhere_Vendor", "", ""),
       MkItem(15, "LOST", FALSE, "OrderAck_Nowhere_Address_AddressName",
              "Shipment_Nowhere_Address_AddressName", "Invoice_Nowhere_Address_AddressName",
              "AddressTypeCode", "ST"),
       MkItem(16, "LOST-{sequential_number}", TRUE, "OrderAck_LineItem_OrderLine_Missing",
              "Shipment_OrderLevel_PackLevel_ItemLevel_ShipmentLine_Missing",
              "Invoice_LineItem_InvoiceLine_Missing", "", ""),
       MkItem(17, "LOST-{sequential_number}", TRUE,
              "OrderAck_LineItem_Nowhere_ProductOrItemDescription_ProductDescription",
              "Shipment_OrderLevel_PackLevel_ItemLevel_Nowhere_ProductOrItemDescription_ProductDescription",
              "Invoice_LineItem_Nowhere_ProductOrItemDescription_ProductDescription",
              "ProductCharacteristicCode", "08") >>

\* artifact_settings["rsx_<kind>_settings"]["tli_sources"]: every resolved item is on
\* detail items of the acknowledgement of a line, grouped by the status code
StatusItems ==
    << MkItem(18, "5", TRUE, "OrderAck_LineItem_LineItemAcknowledgement_ItemScheduleQty",
              "", "", "ItemStatusCode", "IA"),
       MkItem(19, "D-{sequential_number}", TRUE,
              "OrderAck_LineItem_LineItemAcknowledgement_ItemScheduleDate",
              "", "", "ItemStatusCode", "IR"),
       MkItem(20, "9", TRUE, "OrderAck_LineItem_LineItemAcknowledgement_ItemScheduleQty",
              "", "", "ItemStatusCode", "IR") >>

TliSources == [id \in 0..20 |-> id # 0]

RsxPath(item, k) ==
    CASE k = "855" -> item.rsx_path_855
      [] k = "810" -> item.rsx_path_810
      [] OTHER -> item.rsx_path_856

\* the selection loop of _apply_tli_sources_855 / _856 / _810
SourcedItems(k, items, detail) ==
    SelectSeq(items, LAMBDA it :
        /\ RsxPath(it, k) # "" /\ it.item_properties_id # 0
        /\ TliSources[it.item_properties_id]
        /\ it.is_on_detail_level = detail)

-----------------------------------------------------------------------------
(* Extra-Record-aware value injection *)

ExtraTag(item) == Strip(item.extra_record_defining_rsx_tag)
ExtraQual(item) == Strip(item.extra_record_defining_qual)

\* an entry is (item, parts, value); it takes part in grouping when both
\* Extra Record fields are filled and the path has a parent container
IsGrouped(e) == ExtraTag(e.item) # "" /\ ExtraQual(e.item) # "" /\ Len(e.parts) >= 2

\* a faulty variant of KeyOf that leaves the qualifier value out of the key:
\* the grouping invariant C1 must tell it from the code
KeyOfNoQual(e) == <<Front(e.parts), ExtraTag(e.item), "">>

\* the dict key (tuple(parent_parts), extra_tag, extra_qual)
KeyOf(e) == <<Front(e.parts), ExtraTag(e.item), ExtraQual(e.item)>>

\* the keys of the dict "grouped", in insertion order
RECURSIVE GroupKeys(_, _)
GroupKeys(entries, seen) ==
    IF entries = <<>> THEN <<>>
    ELSE LET e == Head(entries)
         IN IF IsGrouped(e) /\ KeyOf(e) \notin seen
            THEN <<KeyOf(e)>> \o GroupKeys(Tail(entries), seen \cup {KeyOf(e)})
            ELSE GroupKeys(Tail(entries), seen)

\* a faulty variant of ReusedInstance that never finds an instance: the reuse
\* property C22 must tell it from the code
ReusedInstanceNone(parent, repeated_tag, extra_tag, extra_qual) == 0

\* the index under parent of the repeated element that holds the group:
\* the first existing one whose qualifier child already has the value, else 0
ReusedInstance(parent, repeated_tag, extra_tag, extra_qual) ==
    LET S == {i \in 1..Len(parent.kids) :
                /\ EndsWith(parent.kids[i].tag, repeated_tag)
                /\ FirstChild(parent.kids[i], extra_tag) # 0
                /\ Strip(parent.kids[i].kids[FirstChild(parent.kids[i], extra_tag)].text)
                     = extra_qual}
    IN IF S = {} THEN 0 ELSE Min(S)

\* the element a new instance is copied from: existing[0], else a bare element
StampFor(parent, repeated_tag) ==
    LET i == FirstChild(parent, repeated_tag)
    IN IF i = 0 THEN Elem(repeated_tag, <<>>) ELSE parent.kids[i]

\* the write loop of one group into its container element
RECURSIVE WriteGroup(_, _, _, _)
WriteGroup(container_elem, repeated_tag, extra_tag, group) ==
    IF group = <<>> THEN container_elem
    ELSE LET e == Head(group)
             idx == IndexOf(e.parts, repeated_tag)
             inner == IF idx = 0 THEN e.parts ELSE SubSeq(e.parts, idx + 1, Len(e.parts))
             next == IF inner = <<>> \/ inner = <<extra_tag>>
                     THEN container_elem
                     ELSE SetXmlValueByPath(container_elem, inner, e.value)
         IN WriteGroup(next, repeated_tag, extra_tag, Tail(group))

\* one iteration of "for (parent_parts_tuple, extra_tag, extra_qual), items in
\* grouped.items()": the new container and the index path of the instance used
\* (NotFound when the parent is unreachable and the group is skipped)
GroupStep(container, key, group) ==
    LET parent_parts == key[1]
        repeated_tag == Last(parent_parts)
        pip == FindElementByPath(container, Front(parent_parts))
    IN IF pip = NotFound THEN [tree |-> container, inst |-> NotFound]
       ELSE LET parent == Get(container, pip)
                found == ReusedInstance(parent, repeated_tag, key[2], key[3])
                grown == IF found # 0 THEN parent
                         ELSE [parent EXCEPT !.kids = Append(@, StampFor(parent, repeated_tag))]
                at == IF found # 0 THEN found ELSE Len(grown.kids)
                filled == WriteGroup(SetXmlValueByPath(grown.kids[at], <<key[2]>>, key[3]),
                                     repeated_tag, key[2], group)
            IN [tree |-> Put(container, pip, [grown EXCEPT !.kids[at] = filled]),
                inst |-> pip \o <<at>>]

\* the state after one group: land maps each key to the instance it used
Landed(land, key, r) == [tree |-> r.tree, land |-> land \cup {<<key, r.inst>>}]

\* all groups in dict order, acc being the container and land so far
RECURSIVE ApplyGroups(_, _, _)
ApplyGroups(acc, keys, entries) ==
    IF keys = <<>> THEN acc
    ELSE ApplyGroups(
            Landed(acc.land, Head(keys),
                   GroupStep(acc.tree, Head(keys),
                             SelectSeq(entries,
                                       LAMBDA e : IsGrouped(e) /\ KeyOf(e) = Head(keys)))),
            Tail(keys), entries)

\* the instance a grouped entry was written under, per the land relation
LandOf(land, e) == (CHOOSE p \in land : p[1] = KeyOf(e))[2]

LogOf(entries, land) ==
    [i \in 1..Len(entries) |->
        [item |-> entries[i].item, parts |-> entries[i].parts, value |-> entries[i].value,
         grouped |-> IsGrouped(entries[i]),
         inst |-> IF IsGrouped(entries[i]) THEN LandOf(land, entries[i]) ELSE <<>>]]


\* apply_normal_item of _apply_header_tli_items (855) and _apply_header_tli_items_810
ApplyNormalAtRoot(tree, e) == SetXmlValueByPath(tree, e.parts, e.value)

\* apply_normal_item of _apply_header_tli_items_856: a path through OrderLevel
\* is written into every OrderLevel of the document
RECURSIVE SetInEach(_, _, _, _)
SetInEach(tree, ips, sub_parts, value) ==
    IF ips = <<>> THEN tree
    ELSE SetInEach(Put(tree, Head(ips),
                       SetXmlValueByPath(Get(tree, Head(ips)), sub_parts, value)),
                   Tail(ips), sub_parts, value)

ApplyNormalShipment(tree, e) ==
    LET idx == IndexOf(e.parts, "OrderLevel")
    IN IF idx # 0
       THEN SetInEach(tree, IterTagged(tree, "OrderLevel"),
                      SubSeq(e.parts, idx + 1, Len(e.parts)), e.value)
       ELSE SetXmlValueByPath(tree, e.parts, e.value)

\* the "apply non-grouped items" loops: how selects the writer, the container
\* itself for detail items, apply_normal_item of the kind for header items
RECURSIVE ApplyNormal(_, _, _)
ApplyNormal(how, tree, entries) ==
    IF entries = <<>> THEN tree
    ELSE LET e == Head(entries)
             next == CASE IsGrouped(e) -> tree
                       [] ~IsGrouped(e) /\ how = "shipment" -> ApplyNormalShipment(tree, e)
                       [] OTHER -> ApplyNormalAtRoot(tree, e)
         IN ApplyNormal(how, next, Tail(entries))

\* the second half of both injectors: the non-grouped items are written after
\* the groups; the log records where every entry went
AfterGroups(how, entries, g) ==
    [tree |-> ApplyNormal(how, g.tree, entries), log |-> LogOf(entries, g.land)]

\* the body shared by both injectors: split the entries into groups and
\* normal items, apply the groups, then the normal items
ApplyEntries(how, container, entries) ==
    AfterGroups(how, entries,
                ApplyGroups([tree |-> container, land |-> {}],
                            GroupKeys(entries, {}), entries))

\* MainWindow._apply_detail_items_with_extra_records on one LineItem/ItemLevel;
\* entries are the tuples (item, sub_parts, value).  An entry with empty
\* sub_parts is a normal item that the last loop skips.
ApplyDetailItemsWithExtraRecords(container, items_for_container) ==
    ApplyEntries("container", container,
                 SelectSeq(items_for_container, LAMBDA e : e.parts # <<>>))

\* path_parts of a header item: split on "_", the document root name dropped
HeaderParts(item, k) ==
    LET parts == Split(RsxPath(item, k), "_")
    IN IF parts # <<>> /\ parts[1] = DocRootName(k) THEN Tail(parts) ELSE parts

\* MainWindow._apply_header_items_with_extra_records, called by
\* _apply_header_tli_items / _856 / _810 with the kind's path attribute
HeaderEntries(k, withPath) ==
    [i \in 1..Len(withPath) |->
        [item |-> withPath[i], parts |-> HeaderParts(withPath[i], k),
         value |-> withPath[i].tli_value]]

ApplyHeaderItemsWithExtraRecords(k, tree, header_items) ==
    ApplyEntries(IF k \in {"856", "856c"} THEN "shipment" ELSE "root", tree,
                 HeaderEntries(k, SelectSeq(header_items, LAMBDA it : RsxPath(it, k) # "")))

\* items_for_line of the detail loops: the value with the repetition index
\* substituted, the path cut after the repeating container's name
\* path_parts after the repeating container's name ("sub_parts"), the whole
\* path when the name is absent
SubParts(parts, idx) == IF idx = 0 THEN parts ELSE SubSeq(parts, idx + 1, Len(parts))

PartsInLine(k, parts) == SubParts(parts, IndexOf(parts, RepeatTag(k)))

\* a faulty variant of LineEntries that writes the value as it is: the
\* substitution property C2 must tell it from the code
LineEntriesNoIndex(k, withPath, index) ==
    [i \in 1..Len(withPath) |->
        [item |-> withPath[i],
         parts |-> PartsInLine(k, Split(RsxPath(withPath[i], k), "_")),
         value |-> withPath[i].tli_value]]

LineEntries(k, withPath, index) ==
    [i \in 1..Len(withPath) |->
        [item |-> withPath[i],
         parts |-> PartsInLine(k, Split(RsxPath(withPath[i], k), "_")),
         value |-> Replace(withPath[i].tli_value, SeqToken, StrOfInt(index))]]

ItemsForLine(k, detail_items, index) ==
    LineEntries(k, SelectSeq(detail_items, LAMBDA it : RsxPath(it, k) # ""), index)

\* "for index, line_item in enumerate(line_items, start=1)": base is the index
\* path of the element whose iter() produced the list ips
\* the document and the log after one container was filled
LineDone(acc, at, index, r) ==
    [tree |-> Put(acc.tree, at, r.tree),
     log |-> Append(acc.log, [inst |-> at, index |-> index, entries |-> r.log])]

LineStep(k, acc, at, index, detail_items) ==
    LineDone(acc, at, index,
             ApplyDetailItemsWithExtraRecords(Get(acc.tree, at),
                                              ItemsForLine(k, detail_items, index)))

RECURSIVE ApplyDetailLines(_, _, _, _, _, _)
ApplyDetailLines(k, acc, base, ips, index, detail_items) ==
    IF ips = <<>> THEN acc
    ELSE ApplyDetailLines(k, LineStep(k, acc, base \o Head(ips), index, detail_items),
                          base, Tail(ips), index + 1, detail_items)

\* MainWindow._apply_detail_tli_items (855) and _apply_detail_tli_items_810
ApplyDetailTliItems(k, tree, detail_items) ==
    IF detail_items = <<>> THEN [tree |-> tree, log |-> <<>>]
    ELSE ApplyDetailLines(k, [tree |-> tree, log |-> <<>>], <<>>,
                          IterTagged(tree, "LineItem"), 1, detail_items)

\* MainWindow._apply_detail_tli_items_856: the index restarts in every OrderLevel
RECURSIVE ApplyDetailOrderLevels(_, _, _)
ApplyDetailOrderLevels(acc, order_levels, detail_items) ==
    IF order_levels = <<>> THEN acc
    ELSE ApplyDetailOrderLevels(
            ApplyDetailLines("856", acc, Head(order_levels),
                             IterTagged(Get(acc.tree, Head(order_levels)), "ItemLevel"),
                             1, detail_items),
            Tail(order_levels), detail_items)

\* "if order_levels: ... else: item_levels = [all ItemLevel of the document]";
\* the document itself stands for a single block when it has no OrderLevel
OrderBlocks(order_levels) == IF order_levels # <<>> THEN order_levels ELSE << <<>> >>

ApplyDetailTliItems856(tree, detail_items) ==
    IF detail_items = <<>> THEN [tree |-> tree, log |-> <<>>]
    ELSE ApplyDetailOrderLevels([tree |-> tree, log |-> <<>>],
                                OrderBlocks(IterTagged(tree, "OrderLevel")), detail_items)

\* ET.Comment(text): a node whose tag is no string; no search by tag finds it
CommentTag == "!--"
Comment(text) == [tag |-> CommentTag, text |-> text, kids |-> <<>>]
IsComment(n) == n.tag = CommentTag

\* the children of a parent with the nodes news put in after position idx
InsertAfter(kids, idx, news) == SubSeq(kids, 1, idx) \o news \o SubSeq(kids, idx + 1, Len(kids))

\* the comments "<PurchaseOrderNumber>key</PurchaseOrderNumber>" of the
\* scenarios after the first
RECURSIVE KeyComments(_)
KeyComments(scens) ==
    IF scens = <<>> THEN <<>>
    ELSE <<Comment("<PurchaseOrderNumber>" \o Head(scens).key \o "</PurchaseOrderNumber>")>>
         \o KeyComments(Tail(scens))

\* the second half of _apply_purchase_order_numbers: the element at po has
\* the first key, the comments follow it under its parent
WithKeyComments(n, po, scens) ==
    IF po = <<>> \/ Len(scens) = 1 THEN n
    ELSE Put(n, Front(po),
             [Get(n, Front(po)) EXCEPT
                 !.kids = InsertAfter(Get(n, Front(po)).kids, Last(po), KeyComments(Tail(scens)))])

\* MainWindow._apply_purchase_order_numbers
ApplyPurchaseOrderNumbers(n, scens) ==
    IF scens = <<>> \/ IterTagged(n, "PurchaseOrderNumber") = <<>> THEN n
    ELSE WithKeyComments(
             Put(n, IterTagged(n, "PurchaseOrderNumber")[1],
                 [Get(n, IterTagged(n, "PurchaseOrderNumber")[1]) EXCEPT !.text = Head(scens).key]),
             IterTagged(n, "PurchaseOrderNumber")[1], scens)

\* the commented alternatives of _apply_item_status_drafts
StatusComments ==
    <<Comment("<ItemStatusCode>IR</ItemStatusCode>"), Comment("<ItemStatusCode>IB</ItemStatusCode>"),
      Comment("<ItemStatusCode>IP</ItemStatusCode>"), Comment("<ItemStatusCode>IQ</ItemStatusCode>"),
      Comment("<ItemStatusCode>DR</ItemStatusCode>")>>

\* "for idx, child in enumerate(list(line_ack))": the children of a
\* LineItemAcknowledgement after the children orig[idx..] are handled, c of
\* them having had their comments put in; the child is where the comments
\* before it moved it to, the comments go in at the index it had at first
RECURSIVE DraftedKids(_, _, _, _)
DraftedKids(orig, idx, c, kids) ==
    IF idx > Len(orig) THEN kids
    ELSE IF ~EndsWith(orig[idx].tag, "ItemStatusCode") THEN DraftedKids(orig, idx + 1, c, kids)
    ELSE DraftedKids(orig, idx + 1, c + 1,
                     InsertAfter([kids EXCEPT ![idx + 5 * c].text = "IA"], idx, StatusComments))

\* MainWindow._apply_item_status_drafts
RECURSIVE ApplyItemStatusDrafts(_)
ApplyItemStatusDrafts(n) ==
    [n EXCEPT !.kids =
        [i \in 1..Len(IF EndsWith(n.tag, "LineItemAcknowledgement")
                      THEN DraftedKids(n.kids, 1, 0, n.kids) ELSE n.kids) |->
            ApplyItemStatusDrafts((IF EndsWith(n.tag, "LineItemAcknowledgement")
                                   THEN DraftedKids(n.kids, 1, 0, n.kids) ELSE n.kids)[i])]]

\* the steps between the loading of the template and the TLI sources; the
\* acknowledgement gets its status drafts (gen_item_status is on by default)
Prepare(k, n, scens) ==
    IF k = "856c" THEN Expand(k, n, scens)
    ELSE IF k = "855"
    THEN ApplyPurchaseOrderNumbers(ApplyItemStatusDrafts(Expand(k, n, scens)), scens)
    ELSE ApplyPurchaseOrderNumbers(Expand(k, n, scens), scens)

-----------------------------------------------------------------------------
(* Pack split of the consolidated shipment *)

\* float(raw) succeeds; the modelled quantities are numerals of digits with at
\* most one point, and texts with a letter or a hyphen that float() rejects
IsFloat(raw) ==
    /\ Len(Split(raw, ".")) <= 2
    /\ \A i \in 1..Len(Split(raw, ".")) : \A c \in 1..Len(Split(raw, ".")[i]) :
          IsDigit(Ch(Split(raw, ".")[i], c))
    /\ \E i \in 1..Len(Split(raw, ".")) : Split(raw, ".")[i] # ""

\* len(raw.split(".")[1])
Decimals(raw) == Len(Split(raw, ".")[2])

\* the digits of the numeral as one number: float(raw) * 10^decimals
Scaled(raw) ==
    IF Len(Split(raw, ".")) = 1 THEN IntOf(raw)
    ELSE IntOf("0" \o Split(raw, ".")[1] \o Split(raw, ".")[2])

RECURSIVE PowerOf(_, _)
PowerOf(b, e) == IF e = 0 THEN 1 ELSE b * PowerOf(b, e - 1)

\* float(raw) is exactly the numeral: its digits over 10^d are a binary fraction
IsExact(n, d) == n % PowerOf(5, d) = 0

\* round() and format() on a value exactly between two results: the even one
HalfEven(n) ==
    IF n % 2 = 0 THEN n \div 2
    ELSE IF ((n - 1) \div 2) % 2 = 0 THEN (n - 1) \div 2 ELSE (n + 1) \div 2

\* val / 2.0 rounded to d decimals, as digits: exact when n is even; a tie
\* that the binary value represents exactly goes to the even neighbour; else
\* the binary value of the numeral lies above or below the tie (up)
HalfScaled(n, d, up) ==
    IF n % 2 = 0 THEN n \div 2
    ELSE IF IsExact(n, d) THEN HalfEven(n)
    ELSE IF up THEN (n + 1) \div 2 ELSE (n - 1) \div 2

RECURSIVE PadZeros(_, _)
PadZeros(digits, width) ==
    IF Len(digits) >= width THEN digits ELSE PadZeros("0" \o digits, width)

\* f"{{:.{decimals}f}}".format(half_val) from the digits of the result
FormatFixed(digits, d) ==
    IF d = 0 THEN digits
    ELSE SubSeq(PadZeros(digits, d + 1), 1, Len(PadZeros(digits, d + 1)) - d) \o "."
         \o SubSeq(PadZeros(digits, d + 1), Len(PadZeros(digits, d + 1)) - d + 1,
                   Len(PadZeros(digits, d + 1)))

\* a faulty variant of HalfStr that keeps the quantity: the split property
\* C13 must tell it from the code
HalfStrWhole(raw, up) == raw

\* half_str
HalfStr(raw, up) ==
    IF Len(Split(raw, ".")) > 1
    THEN FormatFixed(StrOfInt(HalfScaled(Scaled(raw), Decimals(raw), up)), Decimals(raw))
    ELSE StrOfInt(HalfEven(Scaled(raw)))

\* new_pack_level: the copy of the pack without its ItemLevel children, the
\* copy of the first ItemLevel (at position i) appended
NewPackLevel(pack, i) ==
    [pack EXCEPT !.kids = SelectSeq(pack.kids, LAMBDA c : ~EndsWith(c.tag, "ItemLevel"))
                            \o <<pack.kids[i]>>]

\* parent.insert(idx + 1, new_pack_level), the pack at index path pp
InsertNewPack(ol, pp, i) ==
    Put(ol, Front(pp),
        [Get(ol, Front(pp)) EXCEPT
            !.kids = InsertAfter(Get(ol, Front(pp)).kids, Last(pp),
                                 <<NewPackLevel(Get(ol, pp), i)>>)])

\* from "raw = shipqty_elem.text.strip()": the ShipQty at index path qp
SplitAtQty(ol, pp, i, qp, up) ==
    IF ~IsFloat(Strip(Get(ol, qp).text)) THEN ol
    ELSE InsertNewPack(
             Put(ol, qp, [Get(ol, qp) EXCEPT !.text = HalfStr(Strip(Get(ol, qp).text), up)]),
             pp, i)

\* from the first ItemLevel child (at position i) of the pack
SplitAtItem(ol, pp, i, up) ==
    IF i = 0 \/ IterTagged(Get(ol, pp \o <<i>>), "ShipQty") = <<>> THEN ol
    ELSE SplitAtQty(ol, pp, i, pp \o <<i>> \o IterTagged(Get(ol, pp \o <<i>>), "ShipQty")[1], up)

\* MainWindow._split_first_packlevel_in_half on the subtree of an OrderLevel
SplitFirstPacklevelInHalf(ol, up) ==
    IF IterTagged(ol, "PackLevel") = <<>> \/ IterTagged(ol, "PackLevel")[1] = <<>> THEN ol
    ELSE SplitAtItem(ol, IterTagged(ol, "PackLevel")[1],
                     FirstChild(Get(ol, IterTagged(ol, "PackLevel")[1]), "ItemLevel"), up)

\* "if created_order_levels: self._split_first_packlevel_in_half(created_order_levels[0])"
SplitFirstOrder(tree, up) ==
    IF IterTagged(tree, "OrderLevel") = <<>> THEN tree
    ELSE Put(tree, IterTagged(tree, "OrderLevel")[1],
             SplitFirstPacklevelInHalf(Get(tree, IterTagged(tree, "OrderLevel")[1]), up))

-----------------------------------------------------------------------------
(* The end of a generation run *)

\* a faulty variant of Pruned that looks at the children only: the pruning
\* property C18 must tell it from the code
RECURSIVE PrunedShallow(_)
PrunedShallow(n) ==
    [n EXCEPT !.kids = SelectSeq(n.kids, LAMBDA c :
                                    IsComment(c) \/ ~(Strip(c.text) = "" /\ c.kids = <<>>))]

\* MainWindow._prune_empty_elements: the element after pruning its subtree,
\* and whether it is itself empty; a comment is neither visited nor removed
\* and counts as a child
RECURSIVE Pruned(_)
IsEmptyElement(n) == Strip(n.text) = "" /\ n.kids = <<>>
Pruned(n) ==
    LET kids == [i \in 1..Len(n.kids) |->
                    IF IsComment(n.kids[i]) THEN n.kids[i] ELSE Pruned(n.kids[i])]
    IN [n EXCEPT !.kids = SelectSeq(kids, LAMBDA c : IsComment(c) \/ ~IsEmptyElement(c))]

\* the header fields every generator sets before pruning
FixedHeader(k, tree) ==
    CASE k = "855" ->
           SetXmlValueByPath(tree, <<"Header", "OrderHeader", "TradingPartnerId">>, "TestTPID")
      [] k = "810" ->
           SetXmlValueByPath(
               SetXmlValueByPath(tree, <<"Header", "InvoiceHeader", "TradingPartnerId">>, "TestTPID"),
               <<"Header", "InvoiceHeader", "InvoiceNumber">>, "TestInvoiceNumber")
      [] OTHER ->
           SetXmlValueByPath(
               SetXmlValueByPath(tree, <<"Header", "ShipmentHeader", "TradingPartnerId">>, "TestTPID"),
               <<"Header", "ShipmentHeader", "ShipmentIdentification">>, "TestBSN02")

\* a faulty variant of Finished that leaves the pruning out: the end-to-end
\* property C19 must tell it from the code
FinishedUnpruned(k, tree) == FixedHeader(k, tree)

\* the document handed to tree.write
Finished(k, tree) == Pruned(FixedHeader(k, tree))

-----------------------------------------------------------------------------
(* One run of _generate_rsx_855_test_file, _generate_rsx_856_test_file,    *)
(* _generate_rsx_810_test_file or _generate_rsx_856_consolidated_test_file *)

NoTree == Elem("", <<>>)

\* the lists of distinct catalog rows of length at most n, in any order
RECURSIVE DistinctLists(_)
DistinctLists(n) ==
    IF n = 0 THEN {<<>>}
    ELSE LET shorter == DistinctLists(n - 1)
         IN shorter \cup
            {Append(p[1], ItemUniverse[p[2]]) :
                p \in {q \in shorter \X (1..Len(ItemUniverse)) :
                         /\ Len(q[1]) = n - 1
                         /\ \A m \in 1..Len(q[1]) : q[1][m] # ItemUniverse[q[2]]}}

Scenario(key, lines, cons) ==
    [key |-> key, number_of_lines |-> lines, is_consolidated |-> cons]


\* scenario lists of length 1 or 2, any line counts, any consolidation flags
ScenarioLists ==
    {<<Scenario("PO1", a, c)>> : a \in 0..MaxLines, c \in BOOLEAN}
    \cup {<<Scenario("PO1", a, c), Scenario("PO2", b, d)>> :
            a \in 0..MaxLines, b \in 0..MaxLines, c \in BOOLEAN, d \in BOOLEAN}

\* every item list against one scenario pair and the template with a summary
InitItemSweep ==
    /\ parsed_items \in DistinctLists(MaxItems)
    /\ scenarios \in {<<Scenario("PO1", MaxLines, c), Scenario("PO2", 1, c)>> : c \in BOOLEAN}
    /\ tmpl = "summary"

\* every scenario list and template against one item list
InitShapeSweep ==
    /\ parsed_items = <<ItemUniverse[7], ItemUniverse[1]>>
    /\ scenarios \in ScenarioLists
    /\ tmpl \in TemplateVariants

\* the TLI values of the quantity column: whole numbers, decimals, a counter,
\* blanks around a number, and texts that are no number
QtyValues ==
    {"10", "5", "7", "1{sequential_number}", "2.50", "0.5", "1.5", "0.3", "0.25", "3.", ".5",
     " 8 ", " ", "QTY-{sequential_number}", ""}

\* the quantity item with the TLI value v
QtyItem(v) == [ItemUniverse[7] EXCEPT !.tli_value = v]

\* every quantity against consolidated scenario lists
InitQuantitySweep ==
    /\ parsed_items \in {<<QtyItem(v)>> : v \in QtyValues}
    /\ scenarios \in {<<Scenario("PO1", a, TRUE)>> : a \in 1..MaxLines}
                     \cup {<<Scenario("PO1", a, TRUE), Scenario("PO2", 1, TRUE)>> : a \in 1..MaxLines}
    /\ tmpl \in TemplateVariants

\* the header items inside the order block against consolidated scenarios
InitOrderHeaderSweep ==
    /\ parsed_items \in {<<OrderReferenceItem>>, <<OrderReferenceItem, ItemUniverse[6]>>,
                          <<ItemUniverse[6], OrderReferenceItem>>,
                          <<ItemUniverse[1], OrderReferenceItem>>}
    /\ scenarios \in {<<Scenario("PO1", a, TRUE), Scenario("PO2", 1, TRUE)>> : a \in 1..MaxLines}
    /\ tmpl \in TemplateVariants

\* the items whose repeated element the template lacks
InitMissingElementSweep ==
    /\ parsed_items \in {<<ContactItem>>, <<NoteItem>>, <<ContactItem, NoteItem>>,
                          <<ContactItem, ItemUniverse[1]>>, <<ItemUniverse[8], NoteItem>>}
    /\ scenarios \in {<<Scenario("PO1", a, c)>> : a \in 1..MaxLines, c \in BOOLEAN}
    /\ tmpl \in TemplateVariants

\* an item with a path the template lacks, alone and on either side of an
\* item the template has a place for
InitMismatchSweep ==
    /\ parsed_items \in
          {<<MismatchItems[b]>> : b \in 1..5}
          \cup {<<MismatchItems[b], ItemUniverse[g]>> : b \in 1..5, g \in {1, 6, 7, 8}}
          \cup {<<ItemUniverse[g], MismatchItems[b]>> : b \in 1..5, g \in {1, 6, 7, 8}}
          \cup {<<MismatchItems[1], MismatchItems[3]>>, <<MismatchItems[4], MismatchItems[5]>>}
    /\ scenarios \in {<<Scenario("PO1", MaxLines, c), Scenario("PO2", 1, c)>> : c \in BOOLEAN}
    /\ tmpl = "summary"

\* the status items in every order against a line with an acknowledgement
InitStatusSweep ==
    /\ parsed_items \in
          {<<StatusItems[a]>> : a \in 1..3}
          \cup {<<StatusItems[a], StatusItems[b]>> : a \in 1..3, b \in 1..3}
    /\ scenarios \in {<<Scenario("PO1", a, FALSE)>> : a \in 1..MaxLines}
    /\ tmpl = "status"

\* one scenario of three lines against a grouped header item of qualifier
\* ST, an ungrouped header item and a detail item that numbers its lines, in
\* every order of the item list
EndToEndScenario == Scenario("PO1", 3, FALSE)
EndToEndItems == {ItemUniverse[1], ItemUniverse[6], ItemUniverse[7]}
InitEndToEnd ==
    /\ parsed_items \in {l \in [1..3 -> EndToEndItems] : \A i, j \in 1..3 : l[i] = l[j] => i = j}
    /\ scenarios = <<EndToEndScenario>>
    /\ tmpl \in TemplateVariants

\* the parts of the program a specification does not exercise stay at rest
XmlAtRest ==
    /\ stage = "idle" /\ kind = "none" /\ tmpl = "bare" /\ root = NoTree
    /\ parsed_items = <<>> /\ scenarios = <<>> /\ hlog = <<>> /\ dlog = <<>>
    /\ round_up = FALSE /\ written = NoTree /\ runs = 0

\* no call made yet
NoOutput == [done |-> FALSE, raised |-> FALSE, lines |-> <<>>]

\* no archive handed to parse
ZipAtRest ==
    /\ zip_files = <<>> /\ zip_scenarios = <<>> /\ zip_pos = 0 /\ zip_errors = <<>>
    /\ zip_updated = {} /\ zip_out = [done |-> FALSE]

CsvAtRest == csv_rows = <<>> /\ csv_items = <<>> /\ csv_out = NoOutput /\ ZipAtRest

NoItem == [done |-> FALSE]

\* no call made on the catalog
CatAtRest == cat_rows = {} /\ cat_seq = 0 /\ cat_out = NoItem /\ cat_calls = 0

\* no window built
UiAtRest == window = NoItem /\ output = {}

DbAtRest == db_rows = {} /\ db_item = NoItem /\ db_out = NoItem /\ CatAtRest /\ UiAtRest

\* no sheet handed to parse
SheetAtRest ==
    /\ sheet_cols = <<>> /\ sheet_pos = 0 /\ sheet_items = <<>> /\ sheet_errors = <<>>
    /\ sheet_out = [done |-> FALSE]

EdiAtRest == edi_text = "" /\ edi_prev = <<>> /\ edi_out = NoItem /\ SheetAtRest

Init ==
    /\ stage = "idle"
    /\ kind = "none"
    /\ root = NoTree
    /\ hlog = <<>>
    /\ dlog = <<>>
    /\ written = NoTree
    /\ runs = 0
    /\ \/ InitItemSweep /\ round_up = FALSE
       \/ InitShapeSweep /\ round_up = FALSE
       \/ InitQuantitySweep /\ round_up \in BOOLEAN
       \/ InitOrderHeaderSweep /\ round_up = FALSE
       \/ InitEndToEnd /\ round_up = FALSE
       \/ InitMissingElementSweep /\ round_up = FALSE
       \/ InitMismatchSweep /\ round_up = FALSE
       \/ InitStatusSweep /\ round_up = FALSE
    /\ CsvAtRest /\ DbAtRest /\ EdiAtRest

\* the dispatch of the detail pass on the document kind
ApplyDetailOf(k, tree, items) ==
    IF k \in {"856", "856c"} THEN ApplyDetailTliItems856(tree, items)
    ELSE ApplyDetailTliItems(k, tree, items)

\* the document and the record of the pass that the generator goes on with
HeaderDone(r) == root' = r.tree /\ hlog' = r.log
DetailDone(r) == root' = r.tree /\ dlog' = r.log

\* a faulty variant of LoadedTree that goes on with the tree of the run
\* before: the idempotence property C17 must tell it from the code
LoadedTreeKept(k, variant, earlier) ==
    IF earlier = NoTree THEN ClearXmlTexts(Template(k, variant)) ELSE ClearXmlTexts(earlier)

\* "tree = ET.parse(template_path); root = tree.getroot()" and the clearing
\* of the texts: the template is read from its file in every run, whatever
\* document an earlier run built
LoadedTree(k, variant, earlier) == ClearXmlTexts(Template(k, variant))

\* the generator of kind k starts: it returns at once without scenarios,
\* else parses the template and clears its texts; a run after the first is
\* for the same kind
Load(k) ==
    /\ stage = "idle"
    /\ kind \in {"none", k}
    /\ ScenariosFor(k, scenarios) # <<>>
    /\ stage' = "loaded"
    /\ kind' = k
    /\ root' = LoadedTree(k, tmpl, written)
    /\ UNCHANGED <<tmpl, parsed_items, scenarios, hlog, dlog, round_up, written, runs>>
    /\ UNCHANGED <<csvVars, dbVars, ediVars>>

\* the cloning of the repeating container and the purchase order numbers; the
\* drafts, line sequence numbers, charges and taxes act on elements the
\* modelled templates do not have
ExpandStep ==
    /\ stage = "loaded"
    /\ stage' = "cloned"
    /\ root' = Prepare(kind, root, ScenariosFor(kind, scenarios))
    /\ UNCHANGED <<kind, tmpl, parsed_items, scenarios, hlog, dlog, round_up, written, runs>>
    /\ UNCHANGED <<csvVars, dbVars, ediVars>>

\* _apply_tli_sources_*: the header pass
ApplyHeader ==
    /\ stage = "cloned"
    /\ stage' = "header"
    /\ HeaderDone(ApplyHeaderItemsWithExtraRecords(kind, root,
                                                   SourcedItems(kind, parsed_items, FALSE)))
    /\ UNCHANGED <<kind, tmpl, parsed_items, scenarios, dlog, round_up, written, runs>>
    /\ UNCHANGED <<csvVars, dbVars, ediVars>>

\* _apply_tli_sources_*: the detail pass
ApplyDetail ==
    /\ stage = "header"
    /\ stage' = "detail"
    /\ DetailDone(ApplyDetailOf(kind, root, SourcedItems(kind, parsed_items, TRUE)))
    /\ UNCHANGED <<kind, tmpl, parsed_items, scenarios, hlog, round_up, written, runs>>
    /\ UNCHANGED <<csvVars, dbVars, ediVars>>

\* the pack split of the consolidated shipment; round_up is the side of a
\* tie on which the binary value of an inexact decimal lies, a fact of the
\* arithmetic that the model leaves open where quantities are decimals and
\* that no run changes
SplitPack ==
    /\ stage = "detail"
    /\ kind = "856c"
    /\ stage' = "split"
    /\ root' = SplitFirstOrder(root, round_up)
    /\ UNCHANGED <<kind, tmpl, parsed_items, scenarios, hlog, dlog, round_up, written, runs>>
    /\ UNCHANGED <<csvVars, dbVars, ediVars>>

\* the fixed header fields and the pruning: the document that is written
\* to the output file of the kind
Finish ==
    /\ stage = IF kind = "856c" THEN "split" ELSE "detail"
    /\ stage' = "done"
    /\ root' = Finished(kind, root)
    /\ written' = Finished(kind, root)
    /\ runs' = runs + 1
    /\ UNCHANGED <<kind, tmpl, parsed_items, scenarios, hlog, dlog, round_up>>
    /\ UNCHANGED <<csvVars, dbVars, ediVars>>

\* the generation is started again on the same inputs: the output file of
\* the run before stays on disk
Again ==
    /\ stage = "done"
    /\ runs < MaxRuns
    /\ stage' = "idle"
    /\ root' = NoTree
    /\ hlog' = <<>>
    /\ dlog' = <<>>
    /\ UNCHANGED <<kind, tmpl, parsed_items, scenarios, round_up, written, runs>>
    /\ UNCHANGED <<csvVars, dbVars, ediVars>>

Next ==
    \/ \E k \in Kinds : Load(k)
    \/ ExpandStep
    \/ ApplyHeader
    \/ ApplyDetail
    \/ SplitPack
    \/ Finish

Spec == Init /\ [][Next]_vars

\* the generators run again and again on the same inputs
NextRerun ==
    \/ Next
    \/ Again

SpecRerun == Init /\ [][NextRerun]_vars

-----------------------------------------------------------------------------
(* Properties of the Template Repetition Engine *)

Expanded == stage \in {"cloned", "header", "detail"}

\* the count the generator was asked for: the largest line count of its scenarios
RequestedLines == MaxOf([i \in 1..Len(ScenariosFor(kind, scenarios)) |->
                           ScenariosFor(kind, scenarios)[i].number_of_lines])

AtLeastOne(n) == IF n <= 0 THEN 1 ELSE n

\* the children of the element at ip that carry exactly the tag
ChildrenTagged(tree, ip, tag) ==
    {i \in 1..Len(Get(tree, ip).kids) : Get(tree, ip).kids[i].tag = tag}

\* the template the generator loaded, texts cleared, before the expansion
Loaded == ClearXmlTexts(Template(kind, tmpl))

\* the parent the expansion locates: the parent of the template's first
\* repeating container, in the consolidated shipment relative to its order block
LocatedParent ==
    IF kind = "856c"
    THEN Front(IterTagged(Get(Loaded, IterTagged(Loaded, "OrderLevel")[1]), "ItemLevel")[1])
    ELSE Front(IterTagged(Loaded, RepeatTag(kind))[1])

RepeatsUnder(tree, base) ==
    Cardinality(ChildrenTagged(tree, base \o LocatedParent, RepeatTag(kind)))

\* C3: after the expansion the located parent has exactly N children with the
\* repeating tag, N being the requested count, and one when the request is 0;
\* in the consolidated shipment every order block has the count of its own
\* scenario
C3_RepetitionCount ==
    Expanded =>
        IF kind = "856c"
        THEN \A j \in 1..Len(ScenariosFor(kind, scenarios)) :
                RepeatsUnder(root, IterTagged(root, "OrderLevel")[j])
                  = AtLeastOne(ScenariosFor(kind, scenarios)[j].number_of_lines)
        ELSE RepeatsUnder(root, <<>>) = AtLeastOne(RequestedLines)

\* a request of 0 was expanded and left exactly one repetition
C3_Witness ==
    /\ stage = "cloned" /\ kind \in {"855", "856", "810"}
    /\ RequestedLines = 0
    /\ RepeatsUnder(root, <<>>) = 1

\* the tags of the siblings of the first repeating container of the loaded
\* template that precede it (side = "before") or follow it (side = "after")
TemplateSiblings(side) ==
    {Get(Loaded, LocatedParent).kids[i].tag :
        i \in {j \in 1..Len(Get(Loaded, LocatedParent).kids) :
                  /\ Get(Loaded, LocatedParent).kids[j].tag # RepeatTag(kind)
                  /\ IF side = "before"
                     THEN j < Last(IterTagged(Loaded, RepeatTag(kind))[1])
                     ELSE j > Last(IterTagged(Loaded, RepeatTag(kind))[1])}}

\* the positions under the located parent of the children with these tags
PositionsOf(tree, tags) ==
    {i \in 1..Len(Get(tree, LocatedParent).kids) :
        Get(tree, LocatedParent).kids[i].tag \in tags}

\* C4: every sibling that preceded the repeating container in the template
\* comes before the first repetition and every sibling that followed it comes
\* after the last repetition, for the 855, 856 and 810 documents
C4_InsertionPointKept ==
    (stage = "cloned" /\ kind \in {"855", "856", "810"}) =>
        /\ \A b \in PositionsOf(root, TemplateSiblings("before")) :
              \A r \in PositionsOf(root, {RepeatTag(kind)}) : b < r
        /\ \A a \in PositionsOf(root, TemplateSiblings("after")) :
              \A r \in PositionsOf(root, {RepeatTag(kind)}) : r < a

\* the insertion point is kept by the invoice, whose cloning inserts the
\* copies at the index the first LineItem had
C4_InvoiceInsertionPointKept ==
    (stage = "cloned" /\ kind = "810") =>
        /\ \A b \in PositionsOf(root, TemplateSiblings("before")) :
              \A r \in PositionsOf(root, {RepeatTag(kind)}) : b < r
        /\ \A a \in PositionsOf(root, TemplateSiblings("after")) :
              \A r \in PositionsOf(root, {RepeatTag(kind)}) : r < a

-----------------------------------------------------------------------------
(* Properties of the Extra-Record-aware injector *)

\* (parentPath, qualifierTag, qualifierValue) of a logged entry
ParentPath(e) == SubSeq(e.parts, 1, Len(e.parts) - 1)
QualifierTag(e) == Strip(e.item.extra_record_defining_rsx_tag)
QualifierValue(e) == Strip(e.item.extra_record_defining_qual)

\* the injection passes made so far, each the log of its entries: the header
\* pass and one detail pass per repetition of the line container
Passes == {hlog} \cup {dlog[i].entries : i \in 1..Len(dlog)}

GroupedOf(pass) == {i \in 1..Len(pass) : pass[i].grouped}

SameKey(a, b) ==
    /\ ParentPath(a) = ParentPath(b)
    /\ QualifierTag(a) = QualifierTag(b)
    /\ QualifierValue(a) = QualifierValue(b)

\* a grouped entry of the pass is written into the qualifier element of e's
\* container: its leaf name is not the qualifier tag itself (that entry is
\* skipped) but the qualifier tag ends with it
QualifierOverwritten(pass, e) ==
    \E k \in GroupedOf(pass) :
        /\ ParentPath(pass[k]) = ParentPath(e)
        /\ pass[k].parts[Len(pass[k].parts)] # QualifierTag(e)
        /\ EndsWith(QualifierTag(e), pass[k].parts[Len(pass[k].parts)])

TemplateLine ==
    Get(Template(kind, tmpl), IterTagged(Template(kind, tmpl), RepeatTag(kind))[1])

\* the parent of the entry's repeated container is in the template: below
\* the line container for a detail item, below the root for a header item
ParentInTemplate(e) ==
    FindElementByPath(IF e.item.is_on_detail_level THEN TemplateLine ELSE Template(kind, tmpl),
                      Front(ParentPath(e))) # NotFound

DetailPath(it) == PartsInLine(kind, Split(RsxPath(it, kind), "_"))

\* the path of the detail item leads to an element of the template's line
\* container and, for an Extra Record item, the element next to it has the
\* qualifier tag
InTemplateLine(it) ==
    /\ FindElementByPath(TemplateLine, DetailPath(it)) # NotFound
    /\ (QualifierTag([item |-> it]) # "" /\ QualifierValue([item |-> it]) # ""
          /\ Len(DetailPath(it)) >= 2)
         => FindElementByPath(TemplateLine,
                              Front(DetailPath(it)) \o <<QualifierTag([item |-> it])>>) # NotFound

\* the detail items the generator selected whose path the template has, and
\* the text each must leave at repetition i
DetailItems == SelectSeq(SourcedItems(kind, parsed_items, TRUE), InTemplateLine)

Expected(it, i) == Replace(it.tli_value, SeqToken, StrOfInt(i))

TextAt(c, path) ==
    IF FindElementByPath(c, path) = NotFound THEN "<absent>"
    ELSE Get(c, FindElementByPath(c, path)).text

\* the value v of item it is in the container c: at the item's path, or for
\* an Extra Record item in an instance of its repeated element that carries
\* its qualifier
HoldsIn(c, it, v) ==
    IF QualifierTag([item |-> it]) # "" /\ QualifierValue([item |-> it]) # ""
       /\ Len(DetailPath(it)) >= 2
    THEN \E ip \in {Iter(c)[n] : n \in 1..Len(Iter(c))} :
            /\ EndsWith(Get(c, ip).tag, DetailPath(it)[Len(DetailPath(it)) - 1])
            /\ Strip(TextAt(Get(c, ip), <<QualifierTag([item |-> it])>>))
                 = QualifierValue([item |-> it])
            /\ TextAt(Get(c, ip), <<DetailPath(it)[Len(DetailPath(it))]>>) = v
    ELSE TextAt(c, DetailPath(it)) = v

\* the line containers inside the element at base, in document order
LineContainers(base) == IterTagged(Get(root, base), RepeatTag(kind))

\* the top-level order blocks of a shipment; any other document is one block
OrderBlockPaths ==
    IF kind \in {"856", "856c"} /\ IterTagged(root, "OrderLevel") # <<>>
    THEN {IterTagged(root, "OrderLevel")[n] : n \in 1..Len(IterTagged(root, "OrderLevel"))}
    ELSE {<<>>}

\* C2 as stated: the i-th line container of the document, in document order,
\* holds every detail item's value with the token replaced by i
C2_AsStated ==
    stage = "detail" =>
        \A i \in 1..Len(LineContainers(<<>>)) : \A n \in 1..Len(DetailItems) :
            HoldsIn(Get(root, LineContainers(<<>>)[i]), DetailItems[n],
                    Expected(DetailItems[n], i))

\* C2: the detail pass writes, into the i-th line container (LineItem of the
\* 855 and 810, ItemLevel of the 856) of each top-level order block, counted
\* from 1 in document order within that block, the value of every detail
\* item whose path the template's line container has, with
\* {sequential_number} replaced by i; a document without order blocks is one
\* block
C2_DetailIndex ==
    stage = "detail" =>
        \A b \in OrderBlockPaths :
            \A i \in 1..Len(LineContainers(b)) : \A n \in 1..Len(DetailItems) :
                HoldsIn(Get(root, b \o LineContainers(b)[i]), DetailItems[n],
                        Expected(DetailItems[n], i))

\* a consolidated shipment whose first block has a second ItemLevel written
\* with index 2 and whose second block starts again at index 1
C2_Witness ==
    /\ stage = "detail" /\ kind = "856c"
    /\ Len(IterTagged(root, "OrderLevel")) = 2
    /\ \E n \in 1..Len(DetailItems) :
          /\ Expected(DetailItems[n], 1) # Expected(DetailItems[n], 2)
          /\ Len(LineContainers(IterTagged(root, "OrderLevel")[1])) >= 2
          /\ HoldsIn(Get(root, IterTagged(root, "OrderLevel")[1]
                              \o LineContainers(IterTagged(root, "OrderLevel")[1])[2]),
                     DetailItems[n], Expected(DetailItems[n], 2))
          /\ HoldsIn(Get(root, IterTagged(root, "OrderLevel")[2]
                              \o LineContainers(IterTagged(root, "OrderLevel")[2])[1]),
                     DetailItems[n], Expected(DetailItems[n], 1))

-----------------------------------------------------------------------------
(* CSV Placeholder Filler: CSVArchiveParser._generate_csv_test_file *)

MaxRows == 3        \* longest list of CSV rows
MaxCsvItems == 2    \* longest list of items handed to the filler

\* "not val or not val.strip()"
IsBlank(val) == val = "" \/ Strip(val) = ""

\* "len(row) > 0 and row[0] == 'TLI'"
IsTliRow(row) == Len(row) > 0 /\ row[1] = "TLI"

\* empty_count: the blank values of row[1:]
EmptyCount(row) == Cardinality({c \in 2..Len(row) : IsBlank(row[c])})

\* tli_row_idx + 1 of the row at position p: its rank among the TLI rows
TliRank(rows, p) == Cardinality({q \in 1..p : IsTliRow(rows[q])})

\* item_index + 1 when the loop reaches the blank column c
BlankRank(row, c) == Cardinality({d \in 2..c : IsBlank(row[d])})

\* a faulty variant of FillRow that numbers every row 1: the fill
\* property C6 must tell it from the code
FillRowFirstIndex(tli_row, items, r) ==
    [c \in 1..Len(tli_row) |->
        IF c >= 2 /\ IsBlank(tli_row[c]) /\ BlankRank(tli_row, c) <= Len(items)
        THEN Replace(items[BlankRank(tli_row, c)].tli_value, SeqToken, StrOfInt(1))
        ELSE tli_row[c]]

\* the inner loop "for col_idx in range(1, len(new_row))" on the r-th TLI row
FillRow(tli_row, items, r) ==
    [c \in 1..Len(tli_row) |->
        IF c >= 2 /\ IsBlank(tli_row[c]) /\ BlankRank(tli_row, c) <= Len(items)
        THEN Replace(items[BlankRank(tli_row, c)].tli_value, SeqToken, StrOfInt(r))
        ELSE tli_row[c]]

\* result_rows after the loop over tli_rows
ResultRows(rows, items) ==
    [p \in 1..Len(rows) |->
        IF IsTliRow(rows[p]) THEN FillRow(rows[p], items, TliRank(rows, p))
        ELSE rows[p]]

Quote == "\""

Contains(s, c) == \E i \in 1..Len(s) : Ch(s, i) = c

\* csv.writer with the default dialect, one field: QUOTE_MINIMAL quotes a
\* field that holds the delimiter or the quote character and doubles its
\* quotes (the modelled cells hold no line breaks)
WriteField(f) ==
    IF Contains(f, ",") \/ Contains(f, Quote)
    THEN Quote \o Replace(f, Quote, Quote \o Quote) \o Quote
    ELSE f

RECURSIVE JoinFields(_)
JoinFields(row) ==
    IF Len(row) = 1 THEN WriteField(row[1])
    ELSE WriteField(row[1]) \o "," \o JoinFields(Tail(row))

\* writer.writerow(row) without its line terminator: a row of one empty
\* field is written as a pair of quotes, an empty row as an empty line
WriteRow(row) ==
    IF row = <<>> THEN ""
    ELSE IF row = <<"">> THEN Quote \o Quote
    ELSE JoinFields(row)

\* output.getvalue(), as the list of its lines
WriteRows(rows) == [p \in 1..Len(rows) |-> WriteRow(rows[p])]

\* "if items_count != empty_count: raise ValueError(...)" for some TLI row
CountMismatch(rows, items) ==
    \E p \in 1..Len(rows) :
        IsTliRow(rows[p]) /\ EmptyCount(rows[p]) # Len(items)

\* a faulty variant of the filler that never checks the counts: the
\* mismatch property C5 must tell it from the code
GenerateCsvTestFileUnchecked(rows, items) ==
    [done |-> TRUE, raised |-> FALSE, lines |-> WriteRows(ResultRows(rows, items))]

\* CSVArchiveParser._generate_csv_test_file: the text returned, or the
\* ValueError raised before any output is built
GenerateCsvTestFile(rows, items) ==
    IF \A p \in 1..Len(rows) : ~IsTliRow(rows[p])
    THEN [done |-> TRUE, raised |-> FALSE, lines |-> WriteRows(rows)]
    ELSE IF CountMismatch(rows, items)
         THEN [done |-> TRUE, raised |-> TRUE, lines |-> <<>>]
         ELSE [done |-> TRUE, raised |-> FALSE, lines |-> WriteRows(ResultRows(rows, items))]

\* the rows of the modelled CSV designs
RowShapes ==
    { <<"Header_OrderHeader", "", "PO1", " ", "00">>,
      <<"LineItem_OrderLine", "x,y", "">>,
      <<>>,
      <<"">>,
      <<"TLI">>,
      <<"TLI", "">>,
      <<"TLI", "", "keep", " ">>,
      <<"TLI", "say \"hi\"", "", "">> }

ItemValues == {"V{sequential_number}", "A,B", ""}

RECURSIVE ListsUpTo(_, _)
ListsUpTo(S, n) ==
    IF n = 0 THEN {<<>>}
    ELSE ListsUpTo(S, n - 1)
         \cup {Append(l, x) : l \in {m \in ListsUpTo(S, n - 1) : Len(m) = n - 1}, x \in S}

InitCsv ==
    /\ csv_rows \in ListsUpTo(RowShapes, MaxRows)
    /\ csv_items \in ListsUpTo({[tli_value |-> v] : v \in ItemValues}, MaxCsvItems)
    /\ csv_out = NoOutput
    /\ ZipAtRest
    /\ XmlAtRest /\ DbAtRest /\ EdiAtRest

\* one call of the filler
Fill ==
    /\ ~csv_out.done
    /\ csv_out' = GenerateCsvTestFile(csv_rows, csv_items)
    /\ UNCHANGED <<csv_rows, csv_items, xmlVars, dbVars, ediVars>>
    /\ UNCHANGED <<zip_files, zip_scenarios, zip_pos, zip_errors, zip_updated, zip_out>>

NextCsv == Fill

SpecCsv == InitCsv /\ [][NextCsv]_vars

-----------------------------------------------------------------------------
(* Properties of the CSV Placeholder Filler *)

Filled == csv_out.done

\* csv.reader on one line of the output: the commas outside quotes separate
\* the fields, a quoted field loses its quotes and its doubled quotes
QuotesBefore(line, i) == Cardinality({j \in 1..(i - 1) : Ch(line, j) = Quote})

FieldCuts(line) == {i \in 1..Len(line) : Ch(line, i) = "," /\ QuotesBefore(line, i) % 2 = 0}

ReadField(f) ==
    IF Len(f) >= 2 /\ Ch(f, 1) = Quote
    THEN Replace(SubSeq(f, 2, Len(f) - 1), Quote \o Quote, Quote)
    ELSE f

ReadRow(line) ==
    IF line = "" THEN <<>>
    ELSE [c \in 1..(Cardinality(FieldCuts(line)) + 1) |->
            ReadField(Pieces(line, FieldCuts(line), Cardinality(FieldCuts(line)))[c])]

\* every TLI row has exactly as many blank cells as there are items
CountsAgree ==
    \A p \in 1..Len(csv_rows) :
        (Len(csv_rows[p]) > 0 /\ csv_rows[p][1] = "TLI")
          => Cardinality({c \in 2..Len(csv_rows[p]) :
                            csv_rows[p][c] = "" \/ Strip(csv_rows[p][c]) = ""})
               = Len(csv_items)

\* C5: when every TLI row has as many blank cells (marker column excluded)
\* as there are items, every output row has the cell count of the input row
\* at its position; when some TLI row's blank count differs, the filler
\* raises and produces no output
C5_CountPreservedOrRaised ==
    Filled =>
        IF CountsAgree
        THEN /\ ~csv_out.raised
             /\ Len(csv_out.lines) = Len(csv_rows)
             /\ \A p \in 1..Len(csv_rows) :
                    Len(ReadRow(csv_out.lines[p])) = Len(csv_rows[p])
        ELSE csv_out.raised /\ csv_out.lines = <<>>

\* a fill of counted rows, one of them with a quoted field
C5_WitnessFilled ==
    /\ Filled /\ ~csv_out.raised /\ csv_items # <<>>
    /\ \E p \in 1..Len(csv_rows) :
          /\ csv_rows[p] # <<>> /\ csv_rows[p][1] = "TLI" /\ Len(csv_rows[p]) = 4
          /\ csv_out.lines[p] # WriteRow(csv_rows[p])
          /\ Contains(csv_out.lines[p], Quote)

\* the filler raised on a TLI row whose blank count is not the item count
C5_Witness ==
    /\ Filled /\ csv_out.raised /\ csv_items # <<>>
    /\ \E p \in 1..Len(csv_rows) :
          /\ csv_rows[p] # <<>> /\ csv_rows[p][1] = "TLI"
          /\ Cardinality({c \in 2..Len(csv_rows[p]) : csv_rows[p][c] = ""}) > Len(csv_items)

\* the k-th blank cell of a row, from the left, the marker column excluded
IsKthBlank(row, c, k) ==
    /\ c >= 2 /\ (row[c] = "" \/ Strip(row[c]) = "")
    /\ Cardinality({d \in 2..c : row[d] = "" \/ Strip(row[d]) = ""}) = k

\* C6: in the r-th TLI row the k-th blank cell from the left receives the
\* k-th item's value with {sequential_number} replaced by r; the other cells
\* of TLI rows and all other rows are passed through unchanged
C6_FillResult ==
    (Filled /\ ~csv_out.raised) =>
        \A p \in 1..Len(csv_rows) :
            /\ Len(ReadRow(csv_out.lines[p])) = Len(csv_rows[p])
            /\ \A c \in 1..Len(csv_rows[p]) :
                  IF csv_rows[p][1] = "TLI" /\ \E k \in 1..Len(csv_items) :
                                                  IsKthBlank(csv_rows[p], c, k)
                  THEN \A k \in 1..Len(csv_items) :
                          IsKthBlank(csv_rows[p], c, k)
                            => ReadRow(csv_out.lines[p])[c]
                                 = Replace(csv_items[k].tli_value, SeqToken,
                                           StrOfInt(Cardinality(
                                               {q \in 1..p : csv_rows[q] # <<>>
                                                             /\ csv_rows[q][1] = "TLI"})))
                  ELSE ReadRow(csv_out.lines[p])[c] = csv_rows[p][c]

\* two TLI rows were filled: the second got the first item's value with 2
C6_Witness ==
    /\ Filled /\ ~csv_out.raised
    /\ Len(csv_rows) = 3 /\ Len(csv_items) = 2
    /\ csv_items[1].tli_value = "V{sequential_number}"
    /\ csv_rows[1] # <<>> /\ csv_rows[1][1] = "TLI"
    /\ csv_rows[2] # <<>> /\ csv_rows[2][1] # "TLI"
    /\ csv_rows[3] = <<"TLI", "", "keep", " ">>
    /\ ReadRow(csv_out.lines[3]) = <<"TLI", "V2", "keep", csv_items[2].tli_value>>
    /\ ReadRow(csv_out.lines[2]) = csv_rows[2]

-----------------------------------------------------------------------------
(* Item Resolver: SpreadsheetParser._match_with_database *)

MaxDbRows == 3      \* most rows in table item_properties

\* "x or ''" on an optional string
OrEmpty(x) == IF x = Null THEN "" ELSE x

\* a faulty variant of ElementForMatch without the PO1 rule: the resolution
\* property C7 must tell it from the code
ElementForMatchNoRule(item) == item.edi_element_number

\* edi_element_num after "if item.edi_segment == 'PO1' and edi_element_num:
\* try: if int(edi_element_num) > 6: edi_element_num = '07'"; int() raises
\* ValueError on a string that is no number and the value is kept
ElementForMatch(item) ==
    IF /\ item.edi_segment = "PO1"
       /\ IsDigits(item.edi_element_number)
       /\ IntOf(item.edi_element_number) > 6
    THEN "07"
    ELSE item.edi_element_number

\* element_match: both sides as int; when the item's element is no number
\* the except branch compares str(db_element_raw) with it
ElementMatch(db_element_raw, edi_element_num) ==
    IF edi_element_num = "" THEN FALSE
    ELSE IF IsDigits(edi_element_num) THEN db_element_raw = IntOf(edi_element_num)
    ELSE StrOfInt(db_element_raw) = edi_element_num

\* "(db_qualifier and item_qualifier and db_qualifier == item_qualifier) or
\* (not db_qualifier and not item_qualifier)"
QualifierMatch(db_qualifier, item_qualifier) ==
    \/ (db_qualifier # "" /\ item_qualifier # "" /\ db_qualifier = item_qualifier)
    \/ (db_qualifier = "" /\ item_qualifier = "")

\* the test that appends db_item to matches
RowMatches(db_item_row, item) ==
    /\ db_item_row.edi_segment = item.edi_segment
    /\ ElementMatch(db_item_row.edi_element_number, ElementForMatch(item))
    /\ QualifierMatch(OrEmpty(db_item_row.edi_qualifier), OrEmpty(item.edi_qualifier))

\* "Single match - fill item properties"
Populate(item, match) ==
    [item EXCEPT
        !.item_properties_id = match.item_properties_id,
        !.tli_value = match.TLI_value,
        !.extra_record_defining_rsx_tag = OrEmpty(match.extra_record_defining_rsx_tag),
        !.extra_record_defining_qual = OrEmpty(match.extra_record_defining_qual),
        !.is_on_detail_level = (match.is_on_detail_level # 0),
        !.rsx_path_855 = match.rsx_path_855]

\* the outcome by the number of matching rows
Resolved(item, matches) ==
    IF Cardinality(matches) = 0
    THEN [done |-> TRUE, errors |-> <<"error_no_match">>, item |-> item]
    ELSE IF Cardinality(matches) > 1
    THEN [done |-> TRUE, errors |-> <<"error_multiple_matches">>, item |-> item]
    ELSE [done |-> TRUE, errors |-> <<>>,
          item |-> Populate(item, CHOOSE m \in matches : TRUE)]

\* SpreadsheetParser._match_with_database: the errors returned and the item
MatchWithDatabase(item, rows) ==
    Resolved(item, {r \in rows : RowMatches(r, item)})

\* a row of table item_properties (the columns the resolver copies; field
\* rsx_path_855 is column "855_RSX_path")
DbRow(id, seg, el, qual, value, xtag, xqual, detail, path) ==
    [item_properties_id |-> id, edi_segment |-> seg, edi_element_number |-> el,
     edi_qualifier |-> qual, TLI_value |-> value,
     extra_record_defining_rsx_tag |-> xtag, extra_record_defining_qual |-> xqual,
     is_on_detail_level |-> detail, rsx_path_855 |-> path]

\* the table as a database file may hold it: create_item keeps (segment,
\* element, qualifier) unique with NULL and '' alike, but the unique index
\* of a file written earlier does not tell NULL qualifiers apart
DbRowUniverse ==
    { DbRow(1, "N1", 4, "VN", "Vendor", "AddressTypeCode", "VN", 0,
            "OrderAck_Header_Address_AddressName"),
      DbRow(2, "N1", 4, "", "Name", Null, Null, 0, "OrderAck_Header_Address_AddressName"),
      DbRow(3, "N1", 4, Null, "OldName", "", "", 0, ""),
      DbRow(4, "PO1", 7, Null, "QTY-{sequential_number}", Null, Null, 1,
            "OrderAck_LineItem_OrderLine_OrderQty"),
      DbRow(5, "PO1", 15, Null, "Never", Null, Null, 1, ""),
      DbRow(6, "PO1", 2, "", "UOM", Null, Null, 1, ""),
      DbRow(7, "PID", 5, "08", "PART-{sequential_number}", "ProductCharacteristicCode",
            "08", 1, "OrderAck_LineItem_ProductOrItemDescription_ProductDescription") }

\* an Item as the column scan hands it over: the triple set, the rest default
NewItem(seg, el, qual) ==
    [edi_segment |-> seg, edi_element_number |-> el, edi_qualifier |-> qual,
     item_properties_id |-> 0, tli_value |-> "",
     extra_record_defining_rsx_tag |-> "", extra_record_defining_qual |-> "",
     is_on_detail_level |-> FALSE, rsx_path_855 |-> ""]

Descriptors ==
    {NewItem(seg, el, qual) :
        seg \in {"N1", "PO1", "PID"},
        el \in {"", "04", "4", "05", "07", "15", "02", "X7"},
        qual \in {"", "VN", "08", Null}}

InitDb ==
    /\ db_rows \in {t \in SUBSET DbRowUniverse : Cardinality(t) <= MaxDbRows}
    /\ db_item \in Descriptors
    /\ db_out = NoItem
    /\ CatAtRest /\ UiAtRest
    /\ XmlAtRest /\ CsvAtRest /\ EdiAtRest

\* one call of the resolver
Resolve ==
    /\ ~db_out.done
    /\ db_out' = MatchWithDatabase(db_item, db_rows)
    /\ UNCHANGED <<db_rows, db_item, catVars, uiVars, xmlVars, csvVars, ediVars>>

NextDb == Resolve

SpecDb == InitDb /\ [][NextDb]_vars

-----------------------------------------------------------------------------
(* Properties of the Item Resolver *)

\* the number a descriptor's element stands for once the PO1 rule is
\* applied, -1 when it is no number
DescriptorNumber(item) ==
    IF ~IsDigits(item.edi_element_number) THEN -1
    ELSE IF item.edi_segment = "PO1" /\ IntOf(item.edi_element_number) > 6 THEN 7
    ELSE IntOf(item.edi_element_number)

NullAsEmpty(q) == IF q = Null THEN "" ELSE q

\* the catalog rows the claim calls matching
MatchingRows ==
    {r \in db_rows :
        /\ r.edi_segment = db_item.edi_segment
        /\ r.edi_element_number = DescriptorNumber(db_item)
        /\ NullAsEmpty(r.edi_qualifier) = NullAsEmpty(db_item.edi_qualifier)}

\* the item carries the fields of row r, a NULL read as '' and a 0/1 column
\* as a boolean
CarriesRow(item, r) ==
    /\ item.item_properties_id = r.item_properties_id
    /\ item.tli_value = r.TLI_value
    /\ item.extra_record_defining_rsx_tag = NullAsEmpty(r.extra_record_defining_rsx_tag)
    /\ item.extra_record_defining_qual = NullAsEmpty(r.extra_record_defining_qual)
    /\ item.is_on_detail_level = (r.is_on_detail_level = 1)
    /\ item.rsx_path_855 = r.rsx_path_855

\* C7: a row matches when segments are equal, elements are numerically equal
\* after the PO1 rule (element above 6 read as 07) and qualifiers are equal
\* with NULL and '' alike; with exactly one matching row there is no error
\* and the item carries that row's fields, otherwise one resolution error is
\* reported and the item is left as it was
C7_Resolution ==
    db_out.done =>
        /\ db_out.item.edi_segment = db_item.edi_segment
        /\ db_out.item.edi_element_number = db_item.edi_element_number
        /\ db_out.item.edi_qualifier = db_item.edi_qualifier
        /\ IF Cardinality(MatchingRows) = 1
           THEN /\ db_out.errors = <<>>
                /\ \A r \in MatchingRows : CarriesRow(db_out.item, r)
           ELSE /\ Len(db_out.errors) = 1
                /\ db_out.errors[1] = IF MatchingRows = {} THEN "error_no_match"
                                      ELSE "error_multiple_matches"
                /\ db_out.item = db_item

\* a PO1 descriptor with element 15 and an empty qualifier was resolved to
\* the row with element 7 and a NULL qualifier
C7_Witness ==
    /\ db_out.done /\ db_out.errors = <<>>
    /\ db_item.edi_segment = "PO1" /\ db_item.edi_element_number = "15"
    /\ db_item.edi_qualifier = ""
    /\ db_out.item.item_properties_id = 4
    /\ Cardinality(db_rows) = 3

\* two rows matched (a NULL and an empty qualifier) and nothing was populated
C7_WitnessAmbiguous ==
    /\ db_out.done /\ db_out.errors = <<"error_multiple_matches">>
    /\ db_out.item.item_properties_id = 0

-----------------------------------------------------------------------------
(* Location Parser: Item.normalize_segment, Item.parse_edi_info and the
   N104 cases of SpreadsheetParser.parse *)

MaxCalls == 2       \* most calls of parse_edi_info on one text

UpperChars == <<"A", "B", "C", "D", "E", "F", "G", "H", "I", "J", "K", "L", "M",
                "N", "O", "P", "Q", "R", "S", "T", "U", "V", "W", "X", "Y", "Z">>
LowerChars == <<"a", "b", "c", "d", "e", "f", "g", "h", "i", "j", "k", "l", "m",
                "n", "o", "p", "q", "r", "s", "t", "u", "v", "w", "x", "y", "z">>

\* the character classes of the patterns over the modelled alphabet (ASCII,
\* the blank the only whitespace): [A-Za-z], [A-Za-z0-9], \S
Letters == {UpperChars[i] : i \in 1..Len(UpperChars)} \cup {LowerChars[i] : i \in 1..Len(LowerChars)}

IsLetter(c) == c \in Letters
IsAlnum(c) == IsLetter(c) \/ IsDigit(c)
IsNonSpace(c) == ~IsSpace(c)

AllDigits(s, i, j) == \A m \in i..j : IsDigit(Ch(s, m))
AllLetters(s, i, j) == \A m \in i..j : IsLetter(Ch(s, m))
AllAlnum(s, i, j) == \A m \in i..j : IsAlnum(Ch(s, m))
AllSpace(s, i, j) == \A m \in i..j : IsSpace(Ch(s, m))
AllNonSpace(s, i, j) == \A m \in i..j : IsNonSpace(Ch(s, m))

\* where a greedy run that starts at i ends (i - 1 for an empty run)
DigitRunEnd(s, i) ==
    CHOOSE j \in (i - 1)..Len(s) :
        (j = Len(s) \/ ~IsDigit(Ch(s, j + 1))) /\ AllDigits(s, i, j)
LetterRunEnd(s, i) ==
    CHOOSE j \in (i - 1)..Len(s) :
        (j = Len(s) \/ ~IsLetter(Ch(s, j + 1))) /\ AllLetters(s, i, j)
AlnumRunEnd(s, i) ==
    CHOOSE j \in (i - 1)..Len(s) :
        (j = Len(s) \/ ~IsAlnum(Ch(s, j + 1))) /\ AllAlnum(s, i, j)
SpaceRunEnd(s, i) ==
    CHOOSE j \in (i - 1)..Len(s) :
        (j = Len(s) \/ ~IsSpace(Ch(s, j + 1))) /\ AllSpace(s, i, j)

\* where a run that ends at j starts (j + 1 for an empty run)
AlnumRunStart(s, j) ==
    CHOOSE i \in 1..(j + 1) :
        (i = 1 \/ ~IsAlnum(Ch(s, i - 1))) /\ AllAlnum(s, i, j)
SpaceRunStart(s, j) ==
    CHOOSE i \in 1..(j + 1) :
        (i = 1 \/ ~IsSpace(Ch(s, i - 1))) /\ AllSpace(s, i, j)

\* str.zfill(2) on a string of digits
ZFill2(s) == IF Len(s) = 0 THEN "00" ELSE IF Len(s) = 1 THEN "0" \o s ELSE s

\* s[-2:]
LastTwo(s) == IF Len(s) <= 2 THEN s ELSE SubSeq(s, Len(s) - 1, Len(s))

\* Item.normalize_segment
NormalizeSegment(seg) ==
    IF StartsWith(seg, "P0") THEN "PO" \o SubSeq(seg, 3, Len(seg)) ELSE seg

EmptyTriple == <<"", "", "">>

\* a faulty variant of SegmentOf that never moves a digit into the segment:
\* the bare-form property C23 must tell it from the code
SegmentOfLetters(seg_part, digits) == seg_part

\* the branches on len(digits) that follow the qualified-pair match (the
\* same text follows the literal-qualifier match and closes the last
\* pattern): the segment before normalisation
SegmentOf(seg_part, digits) ==
    IF Len(digits) >= 3 THEN seg_part \o Ch(digits, 1)
    ELSE IF Len(digits) = 2
         THEN IF Len(seg_part) > 1 THEN seg_part ELSE seg_part \o Ch(digits, 1)
         ELSE seg_part

\* a faulty variant of ElementOf that hands the digits back as they were read:
\* the format property C11 must tell it from the code
ElementOfRaw(seg_part, digits) == digits

\* the same branches: the element number
ElementOf(seg_part, digits) ==
    IF Len(digits) >= 3 THEN LastTwo(digits)
    ELSE IF Len(digits) = 2
         THEN IF Len(seg_part) > 1 THEN ZFill2(digits) ELSE ZFill2(Ch(digits, 2))
         ELSE ZFill2(digits)

\* r'^P0(\d)(\d{2})$'
MatchP0(text) == Len(text) = 5 /\ SubSeq(text, 1, 2) = "P0" /\ AllDigits(text, 3, 5)

ResultP0(text) == <<"PO" \o Ch(text, 3), SubSeq(text, 4, 5), "">>

\* r'^(\S+?)(\d+)\s*\(' with the first group text[1..k]: the second group
\* is the run of digits after it, then blanks, then the parenthesis whose
\* position is returned (0 when this k does not match)
OpenParen(text, k) ==
    IF /\ k >= 1 /\ k < Len(text)
       /\ AllNonSpace(text, 1, k)
       /\ IsDigit(Ch(text, k + 1))
       /\ SpaceRunEnd(text, DigitRunEnd(text, k + 1) + 1) < Len(text)
       /\ Ch(text, SpaceRunEnd(text, DigitRunEnd(text, k + 1) + 1) + 1) = "("
    THEN SpaceRunEnd(text, DigitRunEnd(text, k + 1) + 1) + 1
    ELSE 0

\* r'([A-Za-z0-9]+)\s*\)$' read from the end of the text: the last
\* character is the closing parenthesis, before it blanks, before them the
\* qualifier
QualEnd(text) == SpaceRunStart(text, Len(text) - 1) - 1
QualStart(text) == AlnumRunStart(text, QualEnd(text))

\* r'=\s*' before the qualifier: the position the equals sign must have
EqPos(text) == SpaceRunStart(text, QualStart(text) - 1) - 1

\* r'\(\s*(\S+?)(\d+)\s*=' between the parenthesis at op and the equals
\* sign: the stretch the two groups share
SubStart(text, op) == SpaceRunEnd(text, op + 1) + 1
SubEnd(text) == SpaceRunStart(text, EqPos(text) - 1) - 1

\* r'\s*\(\s*(\S+?)(\d+)\s*=\s*([A-Za-z0-9]+)\s*\)$' from the parenthesis
PairTail(text, op) ==
    /\ op > 0
    /\ Ch(text, Len(text)) = ")"
    /\ QualStart(text) <= QualEnd(text)
    /\ EqPos(text) > op
    /\ Ch(text, EqPos(text)) = "="
    /\ SubEnd(text) - SubStart(text, op) + 1 >= 2
    /\ AllNonSpace(text, SubStart(text, op), SubEnd(text))
    /\ IsDigit(Ch(text, SubEnd(text)))

\* r'\s*\(\s*([A-Za-z0-9]+)\s*\)$' from the parenthesis
LiteralTail(text, op) ==
    /\ op > 0
    /\ Ch(text, Len(text)) = ")"
    /\ QualStart(text) <= QualEnd(text)
    /\ SpaceRunStart(text, QualStart(text) - 1) - 1 = op

\* the lengths of the first group with which the pattern matches; the
\* reluctant \S+? takes the least
PairSplits(text) == {k \in 1..Len(text) : PairTail(text, OpenParen(text, k))}
LiteralSplits(text) == {k \in 1..Len(text) : LiteralTail(text, OpenParen(text, k))}

\* a faulty variant of QualOf that keeps what is left of the equals sign:
\* the qualifier property C10 must tell it from the code
QualOfSubElement(text) ==
    IF Ch(text, EqPos(text)) = "="
    THEN SubSeq(text, AlnumRunStart(text, SubEnd(text)), SubEnd(text))
    ELSE SubSeq(text, QualStart(text), QualEnd(text))

\* the group ([A-Za-z0-9]+) of either pattern
QualOf(text) == SubSeq(text, QualStart(text), QualEnd(text))

\* the return of the two patterns with parentheses, the first group
\* text[1..k]
QualifiedResult(text, k) ==
    <<NormalizeSegment(SegmentOf(SubSeq(text, 1, k),
                                 SubSeq(text, k + 1, DigitRunEnd(text, k + 1)))),
      ElementOf(SubSeq(text, 1, k), SubSeq(text, k + 1, DigitRunEnd(text, k + 1))),
      QualOf(text)>>

\* r'^([A-Za-z]+\d)(\d{2,})$'
MatchSegDigit(text) ==
    /\ LetterRunEnd(text, 1) >= 1
    /\ Len(text) - LetterRunEnd(text, 1) >= 3
    /\ AllDigits(text, LetterRunEnd(text, 1) + 1, Len(text))

\* "el[-2:].zfill(2) if len(el) > 2 else el.zfill(2)"
TrimElement(el) == IF Len(el) > 2 THEN ZFill2(LastTwo(el)) ELSE ZFill2(el)

ResultSegDigit(text) ==
    <<NormalizeSegment(SubSeq(text, 1, LetterRunEnd(text, 1) + 1)),
      TrimElement(SubSeq(text, LetterRunEnd(text, 1) + 2, Len(text))),
      "">>

\* r'^([A-Za-z]+)(\d+)$'
MatchPlain(text) ==
    /\ LetterRunEnd(text, 1) >= 1
    /\ Len(text) - LetterRunEnd(text, 1) >= 1
    /\ AllDigits(text, LetterRunEnd(text, 1) + 1, Len(text))

\* the branches after the last pattern
PlainTriple(seg_part, digits) ==
    IF seg_part = "P" /\ Len(digits) >= 3 /\ Ch(digits, 1) = "0"
    THEN <<NormalizeSegment("PO" \o Ch(digits, 2)), ZFill2(LastTwo(digits)), "">>
    ELSE <<NormalizeSegment(SegmentOf(seg_part, digits)), ElementOf(seg_part, digits), "">>

ResultPlain(text) ==
    PlainTriple(SubSeq(text, 1, LetterRunEnd(text, 1)),
                SubSeq(text, LetterRunEnd(text, 1) + 1, Len(text)))

\* a faulty variant of ParseStripped that hands back the text it could not
\* read: the totality property C8 must tell it from the code
ParseStrippedKeepText(text) ==
    IF text = "" THEN EmptyTriple
    ELSE IF MatchP0(text) THEN ResultP0(text)
    ELSE IF PairSplits(text) # {} THEN QualifiedResult(text, Min(PairSplits(text)))
    ELSE IF LiteralSplits(text) # {} THEN QualifiedResult(text, Min(LiteralSplits(text)))
    ELSE IF MatchSegDigit(text) THEN ResultSegDigit(text)
    ELSE IF MatchPlain(text) THEN ResultPlain(text)
    ELSE <<text, "", "">>

\* Item.parse_edi_info after "text = text.strip()"
ParseStripped(text) ==
    IF text = "" THEN EmptyTriple
    ELSE IF MatchP0(text) THEN ResultP0(text)
    ELSE IF PairSplits(text) # {} THEN QualifiedResult(text, Min(PairSplits(text)))
    ELSE IF LiteralSplits(text) # {} THEN QualifiedResult(text, Min(LiteralSplits(text)))
    ELSE IF MatchSegDigit(text) THEN ResultSegDigit(text)
    ELSE IF MatchPlain(text) THEN ResultPlain(text)
    ELSE EmptyTriple

\* Item.parse_edi_info
ParseEdiInfo(text) == ParseStripped(Strip(text))

\* re.IGNORECASE on one character
UpperCh(c) ==
    IF \E i \in 1..Len(LowerChars) : LowerChars[i] = c
    THEN UpperChars[CHOOSE i \in 1..Len(LowerChars) : LowerChars[i] = c]
    ELSE c

\* the steps of a match that reads s from the left; each takes the position
\* the step before it reached and returns the position after its own part,
\* 0 once the match has failed

\* a literal, letters in either case
AfterLit(s, p, lit) ==
    IF /\ p > 0 /\ p + Len(lit) - 1 <= Len(s)
       /\ \A i \in 1..Len(lit) : UpperCh(Ch(s, p + i - 1)) = Ch(lit, i)
    THEN p + Len(lit) ELSE 0

\* \s*
AfterWs(s, p) == IF p = 0 THEN 0 ELSE SpaceRunEnd(s, p) + 1

\* \s+
AfterWs1(s, p) == IF p = 0 \/ SpaceRunEnd(s, p) < p THEN 0 ELSE SpaceRunEnd(s, p) + 1

\* [A-Za-z0-9]+
AfterAlnum(s, p) == IF p = 0 \/ AlnumRunEnd(s, p) < p THEN 0 ELSE AlnumRunEnd(s, p) + 1

\* r'^N104\s*\(\s*' and a literal after it
AfterN104(s, lit) == AfterLit(s, AfterWs(s, AfterLit(s, AfterWs(s, AfterLit(s, 1, "N104")), "(")), lit)

\* r'\s*=\s*': where the group after the equals sign starts
AfterEq(s, p) == AfterWs(s, AfterLit(s, AfterWs(s, p), "="))

\* r'\s*\)$'
ClosesAt(s, p) == p > 0 /\ AfterLit(s, AfterWs(s, p), ")") = Len(s) + 1

\* Case 1: where group 1 (the value of N101) starts, 0 when N101= is not read
N101Start(s) == AfterEq(s, AfterN104(s, "N101"))

\* Case 1: where group 2 (the value of N103) starts
N103Start(s) ==
    AfterEq(s, AfterLit(s, AfterWs1(s, AfterLit(s, AfterWs1(s,
        AfterAlnum(s, N101Start(s))), "AND")), "N103"))

\* r'^N104\s*\(\s*N101\s*=\s*([A-Za-z0-9]+)\s+and\s+N103\s*=\s*([A-Za-z0-9]+)\s*\)$'
MatchN101AndN103(s) == ClosesAt(s, AfterAlnum(s, N103Start(s)))

\* a faulty variant of QualFromN101 that takes the value of N103: the
\* property C9 must tell it from the code
QualFromN103(s) == SubSeq(s, N103Start(s), AlnumRunEnd(s, N103Start(s)))

\* m.group(1).strip()
QualFromN101(s) == SubSeq(s, N101Start(s), AlnumRunEnd(s, N101Start(s)))

\* r'^N104\s*\(\s*N103\s*=\s*([A-Za-z0-9]+)\s*\)$'
MatchN103(s) == ClosesAt(s, AfterAlnum(s, AfterEq(s, AfterN104(s, "N103"))))

\* a faulty variant of PreviousIsN1 that looks at all the items before the
\* column: the inheritance property C24 must tell it from the code
AnyPreviousIsN1(items) == \E i \in 1..Len(items) : items[i][1] = "N1"

\* "items and items[-1].edi_segment == 'N1'"
PreviousIsN1(items) == items # <<>> /\ Last(items)[1] = "N1"

\* the outcome of one column of the scan
Scanned(error, triple) ==
    [done |-> TRUE, op |-> "parse", error |-> error, triple |-> triple,
     first |-> triple, calls |-> 1]

\* SpreadsheetParser.parse from the cleared text of a column to the triple of
\* its item: the two N104 cases, then Item.parse_edi_info
ScanColumn(cleared, items) ==
    IF Strip(cleared) # "" /\ MatchN101AndN103(Strip(cleared))
    THEN Scanned(FALSE, <<"N1", "04", QualFromN101(Strip(cleared))>>)
    ELSE IF Strip(cleared) # "" /\ MatchN103(Strip(cleared))
    THEN IF PreviousIsN1(items)
         THEN Scanned(FALSE, <<"N1", "04", Last(items)[3]>>)
         ELSE Scanned(TRUE, EmptyTriple)
    ELSE Scanned(FALSE, ParseEdiInfo(cleared))

\* the texts handed to the parser: a location, blanks, a parenthesised tail
Heads ==
    {"", "N104", "n104", "PID05", "REF02", "P0101", "P0401", "PO107", "PO1015",
     "N45", "N4", "N1104", "SAC15", "abc", "N1 04", "104", "N1(B2", "P"}

Tails ==
    {"", "(N101=VN)", "( N101 = VN )", "(VN)", "(08)", "( 08 )", "(N101=VN and N103=92)",
     "(N103=92)", "( n101 = vn  AND  n103 = 92 )", "(N101=)", "()", "(N101=VN",
     "(A=B1=VN)", "(N101=V N)", "(N 101=VN)", "(N101=VNand N103=92)", "(1=ZZ)",
     "(12=ZZ)", "(V-N)"}

\* more locations of letters and digits, bare and with a qualifier
BareHeads ==
    {"P0", "P7", "P05", "P012", "P04012", "PID5", "PID123", "AB12", "N1", "n45", "Po401", "P1401"}

Texts ==
    {pad \o head \o gap \o tail \o pad :
        pad \in {"", " "}, head \in Heads, gap \in {"", " "}, tail \in Tails}
    \cup {pad \o head \o gap \o tail \o pad :
            pad \in {"", " "}, head \in BareHeads \cup Heads, gap \in {"", " "},
            tail \in {"", "(XX)", "(N101=XX)"}}

InitEdi ==
    /\ edi_text \in Texts
    /\ edi_prev \in {<<>>, << <<"N1", "04", "ST">> >>, << <<"PID", "05", "08">> >>}
    /\ edi_out = NoItem
    /\ SheetAtRest
    /\ XmlAtRest /\ CsvAtRest /\ DbAtRest

\* the record of a call that returned triple, out the record before it
Called(out, triple) ==
    [done |-> TRUE, op |-> "parse_edi_info", error |-> FALSE, triple |-> triple,
     first |-> IF out.done THEN out.first ELSE triple,
     calls |-> IF out.done THEN out.calls + 1 ELSE 1]

\* a call of Item.parse_edi_info on the text, and the calls after it
ParseInfo ==
    /\ IF edi_out.done
       THEN edi_out.op = "parse_edi_info" /\ edi_out.calls < MaxCalls
       ELSE TRUE
    /\ edi_out' = Called(edi_out, ParseEdiInfo(edi_text))
    /\ UNCHANGED <<edi_text, edi_prev, xmlVars, csvVars, dbVars>>
    /\ UNCHANGED <<sheet_cols, sheet_pos, sheet_items, sheet_errors, sheet_out>>

\* the column scan reaches the text
Scan ==
    /\ ~edi_out.done
    /\ edi_out' = ScanColumn(edi_text, edi_prev)
    /\ UNCHANGED <<edi_text, edi_prev, xmlVars, csvVars, dbVars>>
    /\ UNCHANGED <<sheet_cols, sheet_pos, sheet_items, sheet_errors, sheet_out>>

NextEdi == ParseInfo \/ Scan

SpecEdi == InitEdi /\ [][NextEdi]_vars

-----------------------------------------------------------------------------
(* Properties of the Location Parser *)

\* Item.parse_edi_info has returned
Parsed == edi_out.done /\ edi_out.op = "parse_edi_info"

\* the column scan has handled the text
ScannedText == edi_out.done /\ edi_out.op = "parse"

\* no pattern of the parser reads the stripped text
Unmatched(text) ==
    \/ text = ""
    \/ ~(\/ MatchP0(text)
         \/ PairSplits(text) # {}
         \/ LiteralSplits(text) # {}
         \/ MatchSegDigit(text)
         \/ MatchPlain(text))

\* texts in none of the forms the parser reads
Unreadable ==
    {"", "abc", "P", "N1 04", "N1 04 (VN)", "N104 ()", "N104 (N101=)", "N104 (N101=VN",
     "N104 (V-N)", "N104 (N101=V N)", "N104 (N 101=VN)", "(VN)", "abc (N101=VN)",
     "N104 (N101=VN and N103=92)"}

C8_WitnessBlank == Parsed /\ edi_text = " " /\ edi_out.triple = EmptyTriple

\* C9 as stated: Item.parse_edi_info on 'N104 (N101=VN and N103=92)' yields
\* N1, 04, VN
C9_AsStated ==
    (Parsed /\ edi_text = "N104 (N101=VN and N103=92)")
        => edi_out.triple = <<"N1", "04", "VN">>

\* C9: the column scan of SpreadsheetParser.parse reads
\* 'N104 (N101=VN and N103=92)' as N1, 04, VN without an error, whatever
\* the items before it; Item.parse_edi_info itself returns the all-empty
\* triple for this text
C9_ColumnScan ==
    Strip(edi_text) = "N104 (N101=VN and N103=92)" =>
        /\ ScannedText => (edi_out.triple = <<"N1", "04", "VN">> /\ ~edi_out.error)
        /\ Parsed => edi_out.triple = EmptyTriple

\* the scan has read the text after an item of another segment
C9_Witness ==
    /\ ScannedText
    /\ edi_text = "N104 (N101=VN and N103=92)"
    /\ edi_prev = << <<"PID", "05", "08">> >>
    /\ edi_out.triple[3] = "VN"

\* the parser itself was called on the text
C9_WitnessParser ==
    /\ Parsed
    /\ edi_text = "N104 (N101=VN and N103=92)"
    /\ edi_out.triple = EmptyTriple

\* locations of the form SEG<digits>
Locations ==
    {"N104", "n104", "PID05", "REF02", "P0101", "P0401", "PO107", "PO1015", "N45",
     "N4", "N1104", "SAC15"}

Blanks == {"", " "}

\* the text is loc (sub=qual), blanks allowed around the pieces
IsPairForm(text, loc, sub, qual) ==
    \E g \in Blanks, a \in Blanks :
        text = loc \o g \o "(" \o a \o sub \o a \o "=" \o a \o qual \o a \o ")"

\* the text is loc (qual)
IsLiteralForm(text, loc, qual) ==
    \E g \in Blanks, a \in Blanks : text = loc \o g \o "(" \o a \o qual \o a \o ")"

\* C10: for a text SEG<digits> (QSEG<digits>=QUAL) the qualifier of the
\* triple is QUAL and segment and element are those of SEG<digits> (QUAL),
\* nothing of QSEG<digits> in them; for SEG<digits> (QUAL) the qualifier is
\* QUAL; 'N104 (N101=VN)' gives N1, 04, VN and 'PID05 (08)' gives PID, 05, 08
C10_Qualifier ==
    Parsed =>
        /\ \A loc \in Locations, sub \in {"N101", "N103", "12"}, qual \in {"VN", "ZZ", "92", "vn"} :
              IsPairForm(Strip(edi_text), loc, sub, qual) =>
                  /\ edi_out.triple[3] = qual
                  /\ edi_out.triple[1] = ParseEdiInfo(loc \o " (" \o qual \o ")")[1]
                  /\ edi_out.triple[2] = ParseEdiInfo(loc \o " (" \o qual \o ")")[2]
                  /\ edi_out.triple[1] # ""
        /\ \A loc \in Locations, qual \in {"VN", "08"} :
              IsLiteralForm(Strip(edi_text), loc, qual) =>
                  /\ edi_out.triple[3] = qual
                  /\ edi_out.triple[1] # ""
        /\ edi_text = "N104 (N101=VN)" => edi_out.triple = <<"N1", "04", "VN">>
        /\ edi_text = "PID05 (08)" => edi_out.triple = <<"PID", "05", "08">>

\* the pair form was parsed
C10_Witness ==
    /\ Parsed
    /\ edi_text = "N104 (N101=VN)"
    /\ edi_out.triple = <<"N1", "04", "VN">>

\* the literal form was parsed
C10_WitnessLiteral ==
    /\ Parsed
    /\ edi_text = "PID05 (08)"
    /\ edi_out.triple = <<"PID", "05", "08">>

\* the triple is a descriptor: a segment and an element of two decimal digits
IsDescriptor(triple) ==
    /\ triple[1] # ""
    /\ Len(triple[2]) = 2
    /\ \A i \in 1..2 : Ch(triple[2], i) \in {"0", "1", "2", "3", "4", "5", "6", "7", "8", "9"}

\* C11: every triple Item.parse_edi_info returns (and every triple the
\* column scan sets) is either all-empty or has a non-empty segment with an
\* element of exactly two decimal digits
C11_DescriptorFormat ==
    edi_out.done => (edi_out.triple = <<"", "", "">> \/ IsDescriptor(edi_out.triple))

\* a location with one digit and one with four digits were parsed: the
\* element was padded, or cut, to two digits
C11_Witness ==
    /\ Parsed
    /\ \/ (edi_text = "N4" /\ edi_out.triple = <<"N", "04", "">>)
       \/ (edi_text = "N1104 (VN)" /\ edi_out.triple = <<"N1", "04", "VN">>)

-----------------------------------------------------------------------------
(* Properties of the consolidated shipment *)

\* the scenarios of the consolidated shipment, in scenario order
Consolidated == SelectSeq(scenarios, LAMBDA s : s.is_consolidated)

\* the OrderLevel blocks of the document, in document order
Blocks == IterTagged(root, "OrderLevel")

\* the ItemLevel repetitions of the i-th block, in document order
ItemLevelsOf(i) == IterTagged(Get(root, Blocks[i]), "ItemLevel")

\* the lines a block is made for: the scenario's count, one when it is 0
OwnLines(s) == IF s.number_of_lines = 0 THEN 1 ELSE s.number_of_lines

-----------------------------------------------------------------------------
(* Properties of the pack split *)

\* the first pack block of the first order block of a tree
FirstPack(tree) ==
    IterTagged(tree, "OrderLevel")[1]
        \o IterTagged(Get(tree, IterTagged(tree, "OrderLevel")[1]), "PackLevel")[1]

\* the ItemLevel children of the pack block at pp
ItemLevelsOfPack(tree, pp) ==
    SelectSeq(Get(tree, pp).kids, LAMBDA c : EndsWith(c.tag, "ItemLevel"))

\* the quantity of the first ItemLevel of the pack block at pp
FirstQty(tree, pp) ==
    Get(ItemLevelsOfPack(tree, pp)[1],
        IterTagged(ItemLevelsOfPack(tree, pp)[1], "ShipQty")[1]).text

\* the pack block that follows the one at pp under the same parent
NextSibling(pp) == Front(pp) \o <<Last(pp) + 1>>

\* the number of pack blocks of the j-th order block
PacksOfBlock(tree, j) == Len(IterTagged(Get(tree, IterTagged(tree, "OrderLevel")[j]), "PackLevel"))

\* the text is a numeral of digits with at most one point
IsNumeral(w) ==
    /\ w # "" /\ w # "."
    /\ \A i \in 1..Len(w) : IsDigit(Ch(w, i)) \/ Ch(w, i) = "."
    /\ Cardinality({i \in 1..Len(w) : Ch(w, i) = "."}) <= 1

HasPoint(w) == \E i \in 1..Len(w) : Ch(w, i) = "."

\* the number of digits after the point
DecimalsOf(w) == Len(w) - (CHOOSE i \in 1..Len(w) : Ch(w, i) = ".")

\* the digits of a numeral as one number
RECURSIVE NumberOf(_)
NumberOf(w) ==
    IF w = "" THEN 0
    ELSE IF Ch(w, Len(w)) = "." THEN NumberOf(SubSeq(w, 1, Len(w) - 1))
    ELSE NumberOf(SubSeq(w, 1, Len(w) - 1)) * 10 + DigitValue(Ch(w, Len(w)))

\* h is half of w: with the decimals of w when w has a point, else a whole
\* number; to the nearest value of that form
IsHalfOf(h, w) ==
    /\ IsNumeral(h)
    /\ IF HasPoint(w) /\ DecimalsOf(w) > 0
       THEN HasPoint(h) /\ DecimalsOf(h) = DecimalsOf(w)
       ELSE ~HasPoint(h)
    /\ 2 * NumberOf(h) - NumberOf(w) \in {-1, 0, 1}

\* C13: the pack split of the consolidated shipment, run after the value
\* injection on a first order block whose first quantity is a number, leaves
\* in the first order block two sibling pack blocks in place of the first
\* one, the first ItemLevel quantity of each being half of the quantity that
\* the injection wrote, with the decimals of that quantity, or to the nearest
\* whole number when it has no decimal point; the second pack block holds
\* that one ItemLevel only; the other order blocks stay as they were
C13_PackSplit ==
    [][(kind = "856c" /\ stage = "detail" /\ stage' = "split"
        /\ IsNumeral(Strip(FirstQty(root, FirstPack(root))))) =>
         /\ PacksOfBlock(root', 1) = PacksOfBlock(root, 1) + 1
         /\ FirstPack(root') = FirstPack(root)
         /\ EndsWith(Get(root', NextSibling(FirstPack(root))).tag, "PackLevel")
         /\ IsHalfOf(FirstQty(root', FirstPack(root)), Strip(FirstQty(root, FirstPack(root))))
         /\ FirstQty(root', NextSibling(FirstPack(root))) = FirstQty(root', FirstPack(root))
         /\ Len(ItemLevelsOfPack(root', NextSibling(FirstPack(root)))) = 1
         /\ Len(ItemLevelsOfPack(root', FirstPack(root))) = Len(ItemLevelsOfPack(root, FirstPack(root)))
         /\ \A j \in 2..Len(IterTagged(root, "OrderLevel")) :
               Get(root', IterTagged(root', "OrderLevel")[j])
                 = Get(root, IterTagged(root, "OrderLevel")[j])]_vars

\* a quantity that is no number leaves the document as it was
C13_NoNumberNoSplit ==
    [][(kind = "856c" /\ stage = "detail" /\ stage' = "split"
        /\ ~IsNumeral(Strip(FirstQty(root, FirstPack(root))))) => root' = root]_vars

\* the quantity 2.50 of the first of two order blocks was split into two pack
\* blocks of 1.25 each, the second order block has its one pack block
C13_Witness ==
    /\ kind = "856c" /\ stage = "split"
    /\ Len(scenarios) = 2
    /\ Len(parsed_items) = 1 /\ parsed_items[1].tli_value = "2.50"
    /\ PacksOfBlock(root, 1) = 2 /\ PacksOfBlock(root, 2) = 1
    /\ FirstQty(root, FirstPack(root)) = "1.25"
    /\ FirstQty(root, NextSibling(FirstPack(root))) = "1.25"

\* the whole quantity 5 was split into two pack blocks of 2 each
C13_WitnessWhole ==
    /\ kind = "856c" /\ stage = "split"
    /\ Len(parsed_items) = 1 /\ parsed_items[1].tli_value = "5"
    /\ FirstQty(root, FirstPack(root)) = "2"
    /\ FirstQty(root, NextSibling(FirstPack(root))) = "2"

-----------------------------------------------------------------------------
(* Properties of the header pass over several order blocks *)

\* the path of a logged header entry lies inside the order block, and the
\* part of the path below the order block
InsideOrderBlock(e) == IndexOf(e.parts, "OrderLevel") # 0
BelowOrderBlock(e) == SubSeq(e.parts, IndexOf(e.parts, "OrderLevel") + 1, Len(e.parts))

\* the value of the entry stands in the element c at the path: for an entry
\* that takes part in grouping, in an instance of its repeated element that
\* carries its qualifier
WrittenIn(c, e, path) ==
    IF e.grouped
    THEN \E ip \in {Iter(c)[n] : n \in 1..Len(Iter(c))} :
            /\ EndsWith(Get(c, ip).tag, path[Len(path) - 1])
            /\ Strip(TextAt(Get(c, ip), <<QualifierTag(e)>>)) = QualifierValue(e)
            /\ TextAt(Get(c, ip), <<path[Len(path)]>>) = e.value
    ELSE TextAt(c, path) = e.value

\* the header pass of a consolidated shipment with several order blocks is done
SeveralBlocks == kind = "856c" /\ stage = "header" /\ Len(Blocks) >= 2

\* C14 as stated: after the header pass of a consolidated shipment every
\* header item whose path lies inside the order block is written into each
\* order block, grouped or not
C14_AsStated ==
    SeveralBlocks =>
        \A n \in 1..Len(hlog) :
            InsideOrderBlock(hlog[n]) =>
                \A b \in 1..Len(Blocks) :
                    WrittenIn(Get(root, Blocks[b]), hlog[n], BelowOrderBlock(hlog[n]))

\* what the header pass does: an item inside the order block that takes no
\* part in grouping is written into each order block; one that takes part in
\* grouping is written into the first order block and no other; an item
\* outside the order block that takes no part in grouping is written at its
\* path from the root
C14_GroupedInFirstBlockOnly ==
    SeveralBlocks =>
        \A n \in 1..Len(hlog) :
            IF InsideOrderBlock(hlog[n])
            THEN \A b \in 1..Len(Blocks) :
                    WrittenIn(Get(root, Blocks[b]), hlog[n], BelowOrderBlock(hlog[n]))
                      <=> (~hlog[n].grouped \/ b = 1)
            ELSE hlog[n].grouped \/ WrittenIn(root, hlog[n], hlog[n].parts)

\* a grouped reference and the ungrouped vendor, both inside the order block:
\* the vendor is in both order blocks, the reference in the first only
C14_Witness ==
    /\ SeveralBlocks
    /\ \E n, m \in 1..Len(hlog) :
          /\ InsideOrderBlock(hlog[n]) /\ hlog[n].grouped
          /\ InsideOrderBlock(hlog[m]) /\ ~hlog[m].grouped
          /\ WrittenIn(Get(root, Blocks[1]), hlog[n], BelowOrderBlock(hlog[n]))
          /\ ~WrittenIn(Get(root, Blocks[2]), hlog[n], BelowOrderBlock(hlog[n]))
          /\ WrittenIn(Get(root, Blocks[2]), hlog[m], BelowOrderBlock(hlog[m]))

-----------------------------------------------------------------------------
(* CSV archive: CSVArchiveParser.parse *)

MaxFiles == 2       \* most members of an archive

\* the arguments handed to str.format for a message of application/
\* translations.py, by message key; an argument that is not passed is Null,
\* and a template can show no argument it was not passed.  error is the
\* message of the exception caught.
NoError == [msg |-> "", items |-> 0, empty |-> 0]

Message(msg, file, key, error) == [msg |-> msg, file |-> file, key |-> key, error |-> error]

\* csv_files: the members whose lower-cased name ends with .csv or .txt
CsvFiles(files) ==
    SelectSeq(files, LAMBDA f : EndsWith(f.name, ".csv") \/ EndsWith(f.name, ".txt"))

\* "for row in csv_rows: if len(row) > 0 and row[0] == 'Header_OrderHeader'":
\* the first such row, <<>> for None
HeaderRow(rows) ==
    IF \E p \in 1..Len(rows) : Len(rows[p]) > 0 /\ rows[p][1] = "Header_OrderHeader"
    THEN rows[Min({p \in 1..Len(rows) : Len(rows[p]) > 0 /\ rows[p][1] = "Header_OrderHeader"})]
    ELSE <<>>

\* the scenarios with the document number and the key
Matching(scens, number, key) ==
    {i \in 1..Len(scens) : scens[i].document_number = number /\ scens[i].key = key}

\* the only member of a set of one, else 0
TheOne(S) == IF Cardinality(S) = 1 THEN CHOOSE i \in S : TRUE ELSE 0

\* the PO850 branch for two matching scenarios that are both changed by an
\* 850: the version in column 5 selects the changer or the changed one
ByVersion(scens, matching, header_row) ==
    IF Cardinality(matching) = 2
       /\ \A i \in matching : scens[i].is_changed_by_850_scenario
       /\ Len(header_row) > 4 /\ header_row[5] # ""
    THEN CASE Strip(header_row[5]) = "00" ->
                TheOne({i \in matching : ~scens[i].is_changer_850})
           [] Strip(header_row[5]) \in {"01", "05"} ->
                TheOne({i \in matching : scens[i].is_changer_850})
           [] OTHER -> 0
    ELSE 0

\* CSVArchiveParser._find_target_scenario: the index of the scenario, 0 for
\* None (an error is then appended)
FindTargetScenario(filename, key, header_row, scens) ==
    IF StartsWith(filename, "PO850")
    THEN IF Cardinality(Matching(scens, 850, key)) = 1 THEN TheOne(Matching(scens, 850, key))
         ELSE ByVersion(scens, Matching(scens, 850, key), header_row)
    ELSE IF StartsWith(filename, "PC860") THEN TheOne(Matching(scens, 860, key))
    ELSE 0

\* the error _find_target_scenario appends when it returns None
TargetError(filename, key) ==
    IF StartsWith(filename, "PO850") \/ StartsWith(filename, "PC860")
    THEN Message("csv_scenario_not_found", filename, key, NoError)
    ELSE Message("csv_unknown_prefix", filename, Null, NoError)

\* the ValueError of _generate_csv_test_file: the counts of the first TLI row
\* whose blank cells are not as many as the items
CountMismatchError(rows, items) ==
    [msg |-> "csv_item_count_mismatch", items |-> Len(items),
     empty |-> EmptyCount(rows[Min({p \in 1..Len(rows) :
                                      IsTliRow(rows[p]) /\ EmptyCount(rows[p]) # Len(items)})])]

\* scenario.csv_test_file after "if items: try: ... except ... else: ..."
TestFileOf(scenario, rows, items) ==
    IF items = <<>> THEN <<>>
    ELSE IF GenerateCsvTestFile(rows, items).raised THEN scenario.csv_test_file
    ELSE GenerateCsvTestFile(rows, items).lines

\* a faulty variant of UpdateErrors that drops the error of the generation:
\* the mismatch property C15 must tell it from the code
UpdateErrorsSilent(rows, items) == <<>>

\* the errors _update_scenario_from_csv appends; the message of the failed
\* generation is formatted with the error alone
UpdateErrors(rows, items) ==
    IF items # <<>> /\ GenerateCsvTestFile(rows, items).raised
    THEN <<Message("csv_test_generation_error", Null, Null, CountMismatchError(rows, items))>>
    ELSE <<>>

\* CSVArchiveParser._update_scenario_from_csv: the scenario after the call;
\* the content of the member is kept as the rows csv.reader made of it
UpdateScenarioFromCsv(scenario, rows, items, csv_filename) ==
    [scenario EXCEPT
        !.tset_code = IF Len(HeaderRow(rows)) > 4 THEN Strip(HeaderRow(rows)[5]) ELSE @,
        !.number_of_tli = Cardinality({p \in 1..Len(rows) : IsTliRow(rows[p])}),
        !.number_of_lines = Cardinality({p \in 1..Len(rows) :
                                           Len(rows[p]) > 0 /\ rows[p][1] = "LineItem_OrderLine"}),
        !.csv_design = rows,
        !.csv_design_filename = csv_filename,
        !.csv_test_file = TestFileOf(scenario, rows, items)]

\* the error that ends the body of the loop before a scenario is looked for,
\* NoError when there is none
RowError(file) ==
    IF HeaderRow(file.rows) = <<>> THEN Message("csv_no_header", file.name, Null, NoError)
    ELSE IF Len(HeaderRow(file.rows)) < 3 \/ HeaderRow(file.rows)[3] = ""
    THEN Message("csv_invalid_version", file.name, Null, NoError)
    ELSE IF Strip(HeaderRow(file.rows)[3]) = ""
    THEN Message("csv_no_key", file.name, Null, NoError)
    ELSE NoError

\* target_scenario of the member, 0 when the body ended before or it is None
TargetOf(file, scens) ==
    IF RowError(file) # NoError THEN 0
    ELSE FindTargetScenario(file.name, Strip(HeaderRow(file.rows)[3]), HeaderRow(file.rows), scens)

\* the errors one pass of the body appends
FileErrors(file, scens, items) ==
    IF RowError(file) # NoError THEN <<RowError(file)>>
    ELSE IF TargetOf(file, scens) = 0
    THEN <<TargetError(file.name, Strip(HeaderRow(file.rows)[3]))>>
    ELSE UpdateErrors(file.rows, items)

\* the scenarios after one pass of the body
FileScenarios(file, scens, items) ==
    IF TargetOf(file, scens) = 0 THEN scens
    ELSE [scens EXCEPT ![TargetOf(file, scens)] =
             UpdateScenarioFromCsv(scens[TargetOf(file, scens)], file.rows, items, file.name)]

\* the check after the loop
AllErrors(errors, updated, scens) ==
    IF Cardinality(updated) # Len(scens)
    THEN Append(errors, [msg |-> "csv_not_all_updated", file |-> Null, key |-> Null,
                         error |-> [NoError EXCEPT !.items = Len(scens) - Cardinality(updated)]])
    ELSE errors

\* what parse returns: (success, the errors joined line by line)
Returned(files, errors, updated, scens) ==
    IF CsvFiles(files) = <<>>
    THEN [done |-> TRUE, success |-> FALSE,
          report |-> <<Message("csv_no_files", Null, Null, NoError)>>]
    ELSE [done |-> TRUE, success |-> AllErrors(errors, updated, scens) = <<>>,
          report |-> AllErrors(errors, updated, scens)]

Scn(number, key, changed, changer) ==
    [document_number |-> number, key |-> key, is_changed_by_850_scenario |-> changed,
     is_changer_850 |-> changer, tset_code |-> "", number_of_tli |-> 0, number_of_lines |-> 0,
     csv_design_filename |-> "", csv_design |-> <<>>, csv_test_file |-> <<>>]

\* the scenario lists of the modelled TOMMM files
ZipScenarioLists ==
    { <<Scn(850, "PO1", FALSE, FALSE), Scn(850, "PO2", FALSE, FALSE), Scn(860, "PO1", FALSE, FALSE)>>,
      <<Scn(850, "PO1", TRUE, FALSE), Scn(850, "PO1", TRUE, TRUE)>>,
      <<Scn(850, "PO1", FALSE, FALSE)>> }

OrderHeaderRow(key, version) == <<"Header_OrderHeader", "", key, " ", version>>

\* the members of the modelled archives: designs with two, one, and two and
\* three blank TLI cells, members without a usable header row, a member with
\* an unknown prefix and one that is no CSV file
ZipMembers ==
    { [name |-> "PO850_a.csv",
       rows |-> <<OrderHeaderRow("PO1", "00"), <<"LineItem_OrderLine", "x">>,
                  <<"TLI", "", "keep", " ">>>>],
      [name |-> "PO850_b.csv",
       rows |-> <<OrderHeaderRow("PO2", "00"), <<"TLI", "">>>>],
      [name |-> "PC860_a.txt",
       rows |-> <<OrderHeaderRow(" PO1 ", "01"), <<"TLI", "", "">>,
                  <<"LineItem_OrderLine", "x">>, <<"TLI", "", "", "">>>>],
      [name |-> "PO850_c.csv",
       rows |-> <<OrderHeaderRow("PO1", "05"), <<"TLI", "", "">>>>],
      [name |-> "PO850_d.csv", rows |-> <<<<"LineItem_OrderLine", "x">>>>],
      [name |-> "PO850_e.csv", rows |-> <<<<"Header_OrderHeader", "">>>>],
      [name |-> "PO850_f.csv", rows |-> <<OrderHeaderRow(" ", "00")>>],
      [name |-> "XX999.csv", rows |-> <<OrderHeaderRow("PO1", "00")>>],
      [name |-> "readme.md", rows |-> <<>>] }

\* the archives: up to MaxFiles distinct members in any order
RECURSIVE Archives(_)
Archives(n) ==
    IF n = 0 THEN {<<>>}
    ELSE Archives(n - 1)
         \cup {Append(a, f) : a \in {b \in Archives(n - 1) : Len(b) = n - 1},
                              f \in ZipMembers}

InitZip ==
    /\ zip_files \in {a \in Archives(MaxFiles) : \A i, j \in 1..Len(a) : i # j => a[i] # a[j]}
    /\ zip_scenarios \in ZipScenarioLists
    /\ csv_items \in {<<>>, <<[tli_value |-> "V{sequential_number}"]>>,
                      <<[tli_value |-> "V{sequential_number}"], [tli_value |-> "A,B"]>>}
    /\ zip_pos = 1
    /\ zip_errors = <<>>
    /\ zip_updated = {}
    /\ zip_out = [done |-> FALSE]
    /\ csv_rows = <<>> /\ csv_out = NoOutput
    /\ XmlAtRest /\ DbAtRest /\ EdiAtRest

\* one pass of the body of "for csv_filename in csv_files"
ReadFile ==
    /\ ~zip_out.done
    /\ zip_pos <= Len(CsvFiles(zip_files))
    /\ zip_pos' = zip_pos + 1
    /\ zip_errors' = zip_errors \o FileErrors(CsvFiles(zip_files)[zip_pos], zip_scenarios, csv_items)
    /\ zip_scenarios' = FileScenarios(CsvFiles(zip_files)[zip_pos], zip_scenarios, csv_items)
    /\ zip_updated' = zip_updated \cup ({TargetOf(CsvFiles(zip_files)[zip_pos], zip_scenarios)} \ {0})
    /\ UNCHANGED <<zip_files, zip_out, csv_rows, csv_items, csv_out>>
    /\ UNCHANGED <<xmlVars, dbVars, ediVars>>

\* the end of parse: no CSV member at all, or the loop is over
Return ==
    /\ ~zip_out.done
    /\ zip_pos > Len(CsvFiles(zip_files))
    /\ zip_out' = Returned(zip_files, zip_errors, zip_updated, zip_scenarios)
    /\ UNCHANGED <<zip_files, zip_scenarios, zip_pos, zip_errors, zip_updated>>
    /\ UNCHANGED <<csv_rows, csv_items, csv_out, xmlVars, dbVars, ediVars>>

NextZip == ReadFile \/ Return

SpecZip == InitZip /\ [][NextZip]_vars

-----------------------------------------------------------------------------
(* Properties of the CSV archive *)

\* the CSV members of the archive, by position
Members == CsvFiles(zip_files)

\* the scenario a member is for; number, key and flags of a scenario are not
\* changed by parse
ScenarioOf(i) == TargetOf(Members[i], zip_scenarios)

\* the blank cells of a row after its marker
BlankCells(row) == Cardinality({c \in 2..Len(row) : Strip(row[c]) = ""})

\* the TLI rows of the i-th member whose blank cells are not as many as the items
MismatchRows(i) ==
    {p \in 1..Len(Members[i].rows) :
        /\ Len(Members[i].rows[p]) > 0 /\ Members[i].rows[p][1] = "TLI"
        /\ BlankCells(Members[i].rows[p]) # Len(csv_items)}

\* the generation for the i-th member hit a counting mismatch
HitMismatch(i) == ScenarioOf(i) # 0 /\ csv_items # <<>> /\ MismatchRows(i) # {}

\* the i-th member is the last one for its scenario
LastForScenario(i) == \A j \in (i + 1)..Len(Members) : ScenarioOf(j) # ScenarioOf(i)

\* an error of the report gives both counts of the i-th member's mismatch
GivesCounts(e, i) ==
    /\ e.error.msg = "csv_item_count_mismatch"
    /\ e.error.items = Len(csv_items)
    /\ \E p \in MismatchRows(i) : e.error.empty = BlankCells(Members[i].rows[p])

\* the other members are processed and filled: every member without a
\* mismatch that is the last for its scenario left its filled design there
OthersFilled ==
    \A g \in 1..Len(Members) :
        (ScenarioOf(g) # 0 /\ ~HitMismatch(g) /\ LastForScenario(g) /\ csv_items # <<>>) =>
            /\ zip_scenarios[ScenarioOf(g)].csv_design_filename = Members[g].name
            /\ zip_scenarios[ScenarioOf(g)].csv_test_file
                 = GenerateCsvTestFile(Members[g].rows, csv_items).lines

\* C15 as stated: a counting mismatch in one member aborts only that member's
\* generation, the other members are processed and filled, and the error
\* reported names the member and gives both counts
C15_AsStated ==
    zip_out.done =>
        \A i \in 1..Len(Members) : HitMismatch(i) =>
            /\ OthersFilled
            /\ \E n \in 1..Len(zip_out.report) :
                  /\ zip_out.report[n].file = Members[i].name
                  /\ GivesCounts(zip_out.report[n], i)

\* what parse does on a counting mismatch: the other members are processed
\* and filled, the scenario of the member takes the counts and the design of
\* the member and counts as updated, parse reports failure, and an error of
\* the report gives both counts but no file name
C15_MismatchIsLocal ==
    zip_out.done =>
        \A i \in 1..Len(Members) : HitMismatch(i) =>
            /\ OthersFilled
            /\ ScenarioOf(i) \in zip_updated
            /\ LastForScenario(i) =>
                  zip_scenarios[ScenarioOf(i)].csv_design_filename = Members[i].name
            /\ ~zip_out.success
            /\ \E n \in 1..Len(zip_out.report) :
                  /\ zip_out.report[n].msg = "csv_test_generation_error"
                  /\ zip_out.report[n].file = Null
                  /\ GivesCounts(zip_out.report[n], i)

\* an archive of two members for two scenarios: the first hit a mismatch, the
\* second was filled
C15_Witness ==
    /\ zip_out.done
    /\ Len(Members) = 2
    /\ HitMismatch(1) /\ ~HitMismatch(2)
    /\ ScenarioOf(2) # 0 /\ ScenarioOf(2) # ScenarioOf(1)
    /\ zip_scenarios[ScenarioOf(2)].csv_test_file # <<>>
    /\ zip_scenarios[ScenarioOf(1)].csv_test_file = <<>>

-----------------------------------------------------------------------------
(* Column scan: SpreadsheetParser.parse *)

MaxCols == 3        \* most columns of a sheet after column A

\* "not value or str(value).strip() == ''" on a cell that may be None
IsEmptyCell(value) == value = Null \/ Strip(value) = ""

\* an error string "Column <letter>: <message>", by the column and the key of
\* the message in application/translations.py
ColumnError(col_idx, msg) == [column |-> col_idx, msg |-> msg]

\* Item.clear_edi_info on a line without a colon, as the lines of the
\* modelled sheets are
ClearEdiInfo(line) == Strip(line)

\* Item(): the defaults of the dataclass; None of an optional int is -1
DefaultItem ==
    [spreadsheet_label |-> "", spreadsheet_edi_info_text |-> "", spreadsheet_usage |-> "",
     spreadsheet_min_max_text |-> "", spreadsheet_min |-> -1, spreadsheet_max |-> -1,
     spreadsheet_edi_info_text_cleared |-> "",
     edi_segment |-> "", edi_element_number |-> "", edi_qualifier |-> "",
     item_properties_id |-> 0, tli_value |-> "",
     extra_record_defining_rsx_tag |-> "", extra_record_defining_qual |-> "",
     is_on_detail_level |-> FALSE, rsx_path_855 |-> "", parsing_errors |-> <<>>]

\* r'min\s*=' or r'max\s*=' read at position p: the position after it, else 0
KeywordAt(text, p, word) == AfterLit(text, AfterWs(text, AfterLit(text, p, word)), "=")

\* re.search of the keyword: it is somewhere in the text
HasKeyword(text, word) == \E p \in 1..Len(text) : KeywordAt(text, p, word) # 0

\* the starts of the digits of r'min\s*=\s*(\d+)' over all places of a match
NumberStarts(text, word) ==
    {AfterWs(text, KeywordAt(text, p, word)) : p \in 1..Len(text)}
      \cap {q \in 1..Len(text) : IsDigit(Ch(text, q))}

\* int(match.group(1)) of the first match, -1 without a match
NumberAfter(text, word) ==
    IF NumberStarts(text, word) = {} THEN -1
    ELSE IntOf(SubSeq(text, Min(NumberStarts(text, word)),
                      DigitRunEnd(text, Min(NumberStarts(text, word)))))

\* SpreadsheetParser._parse_min_max: the errors it returns
ParseMinMaxErrors(text, col_idx) ==
    (IF NumberStarts(text, "MIN") = {} /\ HasKeyword(text, "MIN")
     THEN <<ColumnError(col_idx, "error_min_not_found")>> ELSE <<>>)
    \o (IF NumberStarts(text, "MAX") = {} /\ HasKeyword(text, "MAX")
        THEN <<ColumnError(col_idx, "error_max_not_found")>> ELSE <<>>)

\* the errors of the rows 1 to 3 of a column
RequiredErrors(col, col_idx) ==
    (IF IsEmptyCell(col.label)
     THEN <<ColumnError(col_idx, "error_empty_field spreadsheet_label")>> ELSE <<>>)
    \o (IF IsEmptyCell(col.edi_info)
        THEN <<ColumnError(col_idx, "error_empty_field spreadsheet_edi_info_text")>> ELSE <<>>)
    \o (IF IsEmptyCell(col.usage)
        THEN <<ColumnError(col_idx, "error_empty_field spreadsheet_usage")>> ELSE <<>>)

\* column_errors when the rows 1 to 5 are read
CellErrors(col, col_idx) ==
    RequiredErrors(col, col_idx)
    \o (IF IsEmptyCell(col.min_max) THEN <<>>
        ELSE ParseMinMaxErrors(Strip(col.min_max), col_idx))

\* spreadsheet_min and spreadsheet_max after row 4: parsed, or 2 for a
\* label that ends with UOM when the cell is empty
BoundOf(col, word) ==
    IF ~IsEmptyCell(col.min_max) THEN NumberAfter(Strip(col.min_max), word)
    ELSE IF ~IsEmptyCell(col.label)
            /\ AfterLit(Strip(col.label), Len(Strip(col.label)) - 2, "UOM") # 0 THEN 2
    ELSE -1

\* the item when the rows 1 to 5 are read
CellItem(col) ==
    [DefaultItem EXCEPT
        !.spreadsheet_label = IF IsEmptyCell(col.label) THEN "" ELSE Strip(col.label),
        !.spreadsheet_edi_info_text = IF IsEmptyCell(col.edi_info) THEN "" ELSE Strip(col.edi_info),
        !.spreadsheet_usage = IF IsEmptyCell(col.usage) THEN "" ELSE Strip(col.usage),
        !.spreadsheet_min_max_text = IF IsEmptyCell(col.min_max) THEN "" ELSE Strip(col.min_max),
        !.spreadsheet_min = BoundOf(col, "MIN"),
        !.spreadsheet_max = BoundOf(col, "MAX")]

\* (segment, element, qualifier) of the items before the column
TriplesOf(items) ==
    [i \in 1..Len(items) |->
        <<items[i].edi_segment, items[i].edi_element_number, items[i].edi_qualifier>>]

\* the item with the triple of the scan
WithTriple(item, triple) ==
    [item EXCEPT !.edi_segment = triple[1], !.edi_element_number = triple[2],
                 !.edi_qualifier = triple[3]]

\* a faulty variant of AfterMatch that forgets the errors of the resolver:
\* the scan property C16 must tell it from the code
AfterMatchSilent(item, col_idx, rows) == [item |-> item, errors |-> <<>>]

\* "if item.edi_segment and item.edi_element_number: match_errors = ..."
AfterMatch(item, col_idx, rows) ==
    IF item.edi_segment = "" \/ item.edi_element_number = ""
    THEN [item |-> item, errors |-> <<>>]
    ELSE [item |-> MatchWithDatabase(item, rows).item,
          errors |-> [n \in 1..Len(MatchWithDatabase(item, rows).errors) |->
                        ColumnError(col_idx, MatchWithDatabase(item, rows).errors[n])]]

\* from "Special handling for N104" on: the item with its cleared text
AfterScan(item, col_idx, items, rows, scan) ==
    IF scan.error
    THEN [item |-> item,
          errors |-> <<ColumnError(col_idx, "error_n104_missing_previous_qualifier")>>]
    ELSE AfterMatch(WithTriple(item, scan.triple), col_idx, rows)

\* the item with its cleared text and the outcome of its column
AfterClear(item, col_idx, items, rows) ==
    AfterScan(item, col_idx, items, rows,
              ScanColumn(item.spreadsheet_edi_info_text_cleared, TriplesOf(items)))

\* the item and the errors of one column
ColumnOutcome(col, col_idx, items, rows) ==
    IF CellErrors(col, col_idx) # <<>>
    THEN [item |-> CellItem(col), errors |-> CellErrors(col, col_idx)]
    ELSE AfterClear([CellItem(col) EXCEPT
                        !.spreadsheet_edi_info_text_cleared = ClearEdiInfo(Strip(col.edi_info))],
                    col_idx, items, rows)

\* the item appended for the column: its errors are its parsing_errors
AppendedItem(outcome) == [outcome.item EXCEPT !.parsing_errors = outcome.errors]

\* a column of the sheet: the cells of its rows 1 to 4
Column(label, edi_info, usage, min_max) ==
    [label |-> label, edi_info |-> edi_info, usage |-> usage, min_max |-> min_max]

\* the columns of the modelled sheets
SheetColumns ==
    { Column("Vendor name", " N104 (N101=VN) ", "M", Null),
      Column("Vendor id", "N104 (N103=92)", "M", "min=1, max=50"),
      Column("Quantity", "PO107", "M", "Min = 1"),
      Column("Qty uom", "PO102", "O", Null),
      Column("Part", "PID05 (08)", "O", "max=, min=2"),
      Column("Notes", "see below", "O", " "),
      Column(Null, "N104", "M", "min=x"),
      Column("Ship to", "N104 (ST)", " ", Null) }

\* the tables of the modelled databases: rows that resolve the columns, rows
\* of which two match the same descriptor, and no rows
SheetTables ==
    { {r \in DbRowUniverse : r.item_properties_id \in {1, 4, 6, 7}},
      {r \in DbRowUniverse : r.item_properties_id \in {1, 2, 3}},
      {} }

InitSheet ==
    /\ sheet_cols \in ListsUpTo(SheetColumns, MaxCols)
    /\ db_rows \in SheetTables
    /\ sheet_pos = 1
    /\ sheet_items = <<>>
    /\ sheet_errors = <<>>
    /\ sheet_out = [done |-> FALSE]
    /\ db_item = NoItem /\ db_out = NoItem /\ CatAtRest /\ UiAtRest
    /\ edi_text = "" /\ edi_prev = <<>> /\ edi_out = NoItem
    /\ XmlAtRest /\ CsvAtRest

\* the errors and the items after the column at sheet_pos (column index
\* sheet_pos + 1 of the sheet)
Scanning(outcome) ==
    /\ sheet_items' = Append(sheet_items, AppendedItem(outcome))
    /\ sheet_errors' = sheet_errors \o outcome.errors

\* one pass of the body of "for col_idx in range(2, max_col + 1)"
ReadColumn ==
    /\ ~sheet_out.done
    /\ sheet_pos <= Len(sheet_cols)
    /\ sheet_pos' = sheet_pos + 1
    /\ Scanning(ColumnOutcome(sheet_cols[sheet_pos], sheet_pos + 1, sheet_items, db_rows))
    /\ UNCHANGED <<sheet_cols, sheet_out, edi_text, edi_prev, edi_out>>
    /\ UNCHANGED <<xmlVars, csvVars, dbVars>>

\* "return items, success, error_message": the report is the errors joined
\* line by line
ReturnItems ==
    /\ ~sheet_out.done
    /\ sheet_pos > Len(sheet_cols)
    /\ sheet_out' = [done |-> TRUE, items |-> sheet_items, success |-> sheet_errors = <<>>,
                     report |-> sheet_errors]
    /\ UNCHANGED <<sheet_cols, sheet_pos, sheet_items, sheet_errors, edi_text, edi_prev, edi_out>>
    /\ UNCHANGED <<xmlVars, csvVars, dbVars>>

NextSheet == ReadColumn \/ ReturnItems

SpecSheet == InitSheet /\ [][NextSheet]_vars

-----------------------------------------------------------------------------
(* Properties of the column scan *)

\* the text of a cell as an item keeps it
Kept(value) == IF IsEmptyCell(value) THEN "" ELSE Strip(value)

\* the errors of the items, column after column
RECURSIVE ErrorsOf(_)
ErrorsOf(items) ==
    IF items = <<>> THEN <<>> ELSE Head(items).parsing_errors \o ErrorsOf(Tail(items))

\* the item has a descriptor and no catalog row: its resolution failed
Unresolved(item) ==
    item.edi_segment # "" /\ item.edi_element_number # "" /\ item.item_properties_id = 0

\* C16: a column with a resolution error or another error of its own gets an
\* error string and the scan goes on: the list returned holds one item per
\* scanned column in column order, every column is parsed and resolved from
\* its own cells and the items before it whatever errors these have, every
\* item with a descriptor and no catalog row has an error of its column, and
\* the run is successful only without errors, its report being the errors
\* of all columns in column order
C16_ScanGoesOn ==
    sheet_out.done =>
        /\ Len(sheet_out.items) = Len(sheet_cols)
        /\ \A i \in 1..Len(sheet_cols) :
              /\ sheet_out.items[i].spreadsheet_label = Kept(sheet_cols[i].label)
              /\ sheet_out.items[i].spreadsheet_edi_info_text = Kept(sheet_cols[i].edi_info)
              /\ sheet_out.items[i]
                   = AppendedItem(ColumnOutcome(sheet_cols[i], i + 1,
                                                SubSeq(sheet_out.items, 1, i - 1), db_rows))
              /\ \A n \in 1..Len(sheet_out.items[i].parsing_errors) :
                    sheet_out.items[i].parsing_errors[n].column = i + 1
              /\ Unresolved(sheet_out.items[i]) => sheet_out.items[i].parsing_errors # <<>>
        /\ sheet_out.report = ErrorsOf(sheet_out.items)
        /\ sheet_out.success <=> sheet_out.report = <<>>

\* a sheet whose first column has no catalog row and whose second column is
\* resolved: two items, one error, the run unsuccessful
C16_Witness ==
    /\ sheet_out.done
    /\ Len(sheet_out.items) = 2
    /\ Unresolved(sheet_out.items[1])
    /\ sheet_out.items[1].parsing_errors = <<ColumnError(2, "error_no_match")>>
    /\ sheet_out.items[2].item_properties_id # 0
    /\ sheet_out.items[2].parsing_errors = <<>>
    /\ ~sheet_out.success
    /\ sheet_out.report = <<ColumnError(2, "error_no_match")>>

-----------------------------------------------------------------------------
\* Properties of a repeated generation run

\* the inputs of a run: the parsed items, the scenarios and the template
\* (the settings are the definition TliSources, which no action can touch)
RunInputs == <<parsed_items, scenarios, tmpl, round_up>>

\* a step that ends a run after the first
SecondFinish == stage # "done" /\ stage' = "done" /\ runs >= 1

-----------------------------------------------------------------------------
\* Properties of the pruning

\* the text of the node is absent or of white space only
BlankText(n) == Strip(n.text) = ""

\* the node or one of its descendants has text, or is a comment
HasContent(n) ==
    \E i \in 1..Len(Iter(n)) : IsComment(Get(n, Iter(n)[i])) \/ ~BlankText(Get(n, Iter(n)[i]))

\* the tree without the nodes below n that have no content, the others in
\* their order
RECURSIVE Survivors(_)
Survivors(n) ==
    LET kept == SelectSeq(n.kids, HasContent)
    IN [n EXCEPT !.kids = [i \in 1..Len(kept) |-> Survivors(kept[i])]]

\* the elements below the root of the tree that have neither text nor children
EmptyBelow(tree) ==
    {i \in 2..Len(Iter(tree)) :
        /\ ~IsComment(Get(tree, Iter(tree)[i]))
        /\ BlankText(Get(tree, Iter(tree)[i]))
        /\ Get(tree, Iter(tree)[i]).kids = <<>>}

\* the step of a run in which the document is pruned
PruningStep == stage # "done" /\ stage' = "done"

\* C18: after the pruning of the document no element below the root has
\* both a blank text and no children; and the pruned document is the document
\* before the pruning without the elements that had no text and no
\* descendant with text, every other element at its place among the
\* surviving children of its parent.
C18_PruneBottomUp ==
    [][PruningStep =>
          /\ EmptyBelow(root') = {}
          /\ root' = Survivors(FixedHeader(kind, root))]_vars

\* a finished document from which the pruning took an element without text
\* together with all its descendants, next to an element it kept
C18_Witness ==
    /\ stage = "done"
    /\ Len(parsed_items) >= 1
    /\ Len(root.kids) >= 2
    /\ \E i \in 1..Len(root.kids) : root.kids[i].kids # <<>>
    /\ Len(Iter(root)) < Len(Iter(ClearXmlTexts(Template(kind, tmpl))))
    /\ IterTagged(root, "ProductOrItemDescription") = <<>>


\* a document about to be pruned holds an element whose text is of white
\* space only
C18_WitnessWhiteSpace ==
    /\ stage \in {"detail", "split"}
    /\ \E i \in 2..Len(Iter(root)) :
          Get(root, Iter(root)[i]).text # "" /\ BlankText(Get(root, Iter(root)[i]))

-----------------------------------------------------------------------------
\* Properties of the end-to-end run

\* the run of the end-to-end case has finished
EndToEndDone ==
    /\ stage = "done"
    /\ scenarios = <<EndToEndScenario>>
    /\ Len(parsed_items) = 3
    /\ {parsed_items[i] : i \in 1..Len(parsed_items)} = EndToEndItems

\* the texts of the elements below n whose tag ends with name, in document order
TextsTagged(n, name) ==
    [i \in 1..Len(IterTagged(n, name)) |-> Get(n, IterTagged(n, name)[i]).text]

\* the path parts of the item in the document of the kind, the root name dropped
PartsFromRoot(item, k) == Tail(Split(RsxPath(item, k), "_"))

\* C19: for one scenario of three lines, a header item grouped under the
\* qualifier ST, an ungrouped header item and a detail item with the value
\* QTY-{sequential_number}, the finished document has exactly three repeated
\* detail containers whose quantity elements hold QTY-1, QTY-2 and QTY-3 in
\* this order, exactly one instance of the header group's container, which
\* holds the qualifier ST and the grouped value, and the ungrouped value at
\* its path from the document root.
C19_EndToEnd ==
    EndToEndDone =>
        /\ Len(IterTagged(root, RepeatTag(kind))) = 3
        /\ \A i \in 1..3 :
              /\ i <= Len(IterTagged(root, RepeatTag(kind)))
              /\ TextsTagged(Get(root, IterTagged(root, RepeatTag(kind))[i]), "Qty")
                    = <<"QTY-" \o StrOfInt(i)>>
        /\ Len(IterTagged(root, "Address")) = 1
        /\ TextsTagged(Get(root, IterTagged(root, "Address")[1]), "AddressTypeCode") = <<"ST">>
        /\ TextsTagged(Get(root, IterTagged(root, "Address")[1]), "AddressName") = <<"ShipTo">>
        /\ TextAt(root, PartsFromRoot(ItemUniverse[6], kind)) = "V1"

\* an acknowledgement of the end-to-end case has been finished
C19_Witness ==
    /\ EndToEndDone
    /\ kind = "855"
    /\ TextsTagged(root, "OrderQty") = <<"QTY-1", "QTY-2", "QTY-3">>
    /\ TextAt(root, <<"Header", "OrderHeader", "Vendor">>) = "V1"

-----------------------------------------------------------------------------
\* Properties of the creation of a group's container

\* the group steps of a pass over the container tree, each with the tree it
\* starts from
RECURSIVE GroupCasesOf(_, _, _)
GroupCasesOf(tree, keys, entries) ==
    IF keys = <<>> THEN {}
    ELSE {[tree |-> tree, key |-> Head(keys),
           group |-> SelectSeq(entries, LAMBDA e : IsGrouped(e) /\ KeyOf(e) = Head(keys))]}
         \cup GroupCasesOf(GroupStep(tree, Head(keys),
                                     SelectSeq(entries, LAMBDA e :
                                         IsGrouped(e) /\ KeyOf(e) = Head(keys))).tree,
                           Tail(keys), entries)

GroupCasesIn(tree, entries) == GroupCasesOf(tree, GroupKeys(entries, {}), entries)

\* the entries of the header pass and of the detail pass over one line
HeaderPassEntries ==
    HeaderEntries(kind, SelectSeq(SourcedItems(kind, parsed_items, FALSE),
                                  LAMBDA it : RsxPath(it, kind) # ""))
LinePassEntries ==
    SelectSeq(ItemsForLine(kind, SourcedItems(kind, parsed_items, TRUE), 1),
              LAMBDA e : e.parts # <<>>)

\* the group steps the pass that comes next will take: of the header pass
\* over the document, of the detail pass over every line container
GroupCases ==
    CASE stage = "cloned" -> GroupCasesIn(root, HeaderPassEntries)
      [] stage = "header" ->
           UNION {GroupCasesIn(Get(root, IterTagged(root, RepeatTag(kind))[i]), LinePassEntries) :
                    i \in 1..Len(IterTagged(root, RepeatTag(kind)))}
      [] OTHER -> {}

\* the parent of the repeated element of the case, and the instances in it
ParentIp(c) == FindElementByPath(c.tree, Front(c.key[1]))
ParentOf(c) == Get(c.tree, ParentIp(c))
RepeatedTagOf(c) == Last(c.key[1])

\* the parent is reachable and no instance holds the qualifier value
MustCreate(c) ==
    /\ ParentIp(c) # NotFound
    /\ ReusedInstance(ParentOf(c), RepeatedTagOf(c), c.key[2], c.key[3]) = 0

\* the parent after the container was found or made and its qualifier
\* element set, before a value of the group is written
ParentAfter(c) == Get(GroupStep(c.tree, c.key, <<>>).tree, ParentIp(c))
NewInstance(c) == Last(ParentAfter(c).kids)

\* exactly one element was appended to the parent
AppendedOne(c) ==
    /\ Len(ParentAfter(c).kids) = Len(ParentOf(c).kids) + 1
    /\ SubSeq(ParentAfter(c).kids, 1, Len(ParentOf(c).kids)) = ParentOf(c).kids

\* the new element has the elements of the first instance, or is a bare
\* element of the repeated tag when there was no instance
CloneOrBare(c) ==
    IF FirstChild(ParentOf(c), RepeatedTagOf(c)) # 0
    THEN ClearXmlTexts(NewInstance(c))
            = ClearXmlTexts(ParentOf(c).kids[FirstChild(ParentOf(c), RepeatedTagOf(c))])
    ELSE NewInstance(c) = Elem(RepeatedTagOf(c), <<>>)

\* the element has a child of the qualifier tag whose text is the qualifier value
HasQualifier(n, extra_tag, extra_qual) ==
    /\ FirstChild(n, extra_tag) # 0
    /\ n.kids[FirstChild(n, extra_tag)].text = extra_qual

\* C20 as stated: when the parent is reachable and no instance of the
\* repeated tag holds the qualifier value, exactly one new instance is
\* appended, a clone of the first instance or a bare element when there is
\* none, and the new instance then has a qualifierTag child whose text is
\* qualifierValue.
C20_AsStated ==
    \A c \in GroupCases :
        MustCreate(c) =>
            /\ AppendedOne(c)
            /\ CloneOrBare(c)
            /\ HasQualifier(NewInstance(c), c.key[2], c.key[3])

\* what the creation does: one instance is appended, a clone or a bare
\* element, and it has the qualifier exactly when the element it was copied
\* from has a child of the qualifier tag
C20_QualifierOnlyInClone ==
    \A c \in GroupCases :
        MustCreate(c) =>
            /\ AppendedOne(c)
            /\ CloneOrBare(c)
            /\ HasQualifier(NewInstance(c), c.key[2], c.key[3])
                  <=> FirstChild(StampFor(ParentOf(c), RepeatedTagOf(c)), c.key[2]) # 0

\* a bare element was appended for a group, and it has no children
C20_WitnessBare ==
    \E c \in GroupCases :
        /\ MustCreate(c)
        /\ FirstChild(ParentOf(c), RepeatedTagOf(c)) = 0
        /\ NewInstance(c).kids = <<>>

\* a clone was appended for a group, and it has the qualifier
C20_WitnessClone ==
    \E c \in GroupCases :
        /\ MustCreate(c)
        /\ FirstChild(ParentOf(c), RepeatedTagOf(c)) # 0
        /\ HasQualifier(NewInstance(c), c.key[2], c.key[3])

-----------------------------------------------------------------------------
\* Properties of a path the document does not have

\* the header item cannot be written into the document: the path of an
\* ungrouped item, or the parent of the repeated element of an Extra Record
\* item, names a child that is not there
HeaderMismatch(it) ==
    IF IsGrouped([item |-> it, parts |-> HeaderParts(it, kind)])
    THEN FindElementByPath(root, Front(Front(HeaderParts(it, kind)))) = NotFound
    ELSE FindElementByPath(root, HeaderParts(it, kind)) = NotFound

\* the same for a detail item and the line container
DetailMismatch(it) ==
    IF IsGrouped([item |-> it, parts |-> DetailPath(it)])
    THEN FindElementByPath(TemplateLine, Front(Front(DetailPath(it)))) = NotFound
    ELSE FindElementByPath(TemplateLine, DetailPath(it)) = NotFound

HeaderItemsOfRun == SourcedItems(kind, parsed_items, FALSE)
DetailItemsOfRun == SourcedItems(kind, parsed_items, TRUE)

\* a pass over items of which one at least cannot be written
HeaderPassWithMismatch ==
    /\ stage = "cloned" /\ stage' = "header"
    /\ \E i \in 1..Len(HeaderItemsOfRun) : HeaderMismatch(HeaderItemsOfRun[i])
DetailPassWithMismatch ==
    /\ stage = "header" /\ stage' = "detail"
    /\ \E i \in 1..Len(DetailItemsOfRun) : DetailMismatch(DetailItemsOfRun[i])

-----------------------------------------------------------------------------
\* Properties of the reuse of a group's container

\* the instances of the repeated tag under the parent
InstancesOf(parent, repeated_tag) ==
    {i \in 1..Len(parent.kids) : EndsWith(parent.kids[i].tag, repeated_tag)}

\* the instances that have a child of the qualifier tag whose trimmed text
\* is the qualifier value
Holders(c) ==
    {i \in InstancesOf(ParentOf(c), RepeatedTagOf(c)) :
        \E k \in 1..Len(ParentOf(c).kids[i].kids) :
            /\ ParentOf(c).kids[i].kids[k].tag = c.key[2]
            /\ Strip(ParentOf(c).kids[i].kids[k].text) = c.key[3]}

\* the parent is reachable and an instance holds the qualifier value
MustReuse(c) == ParentIp(c) # NotFound /\ Holders(c) # {}

\* the group step of the case, its writes included
StepOf(c) == GroupStep(c.tree, c.key, c.group)
ParentAfterStep(c) == Get(StepOf(c).tree, ParentIp(c))

\* the entries of the group that are the last to write their leaf
LastWriters(c) ==
    {i \in 1..Len(c.group) :
        /\ Last(c.group[i].parts) # c.key[2]
        /\ \A j \in (i + 1)..Len(c.group) : Last(c.group[j].parts) # Last(c.group[i].parts)}

\* C22: when an instance of the repeated tag under the parent already has a
\* qualifierTag child whose trimmed text is qualifierValue, the group step
\* uses the first such instance: the values of the group are written into
\* it, no other child of the parent changes, and the parent has as many
\* instances of the repeated tag after the step as before it.
C22_ReuseKeepsCount ==
    \A c \in GroupCases :
        MustReuse(c) =>
            /\ StepOf(c).inst = ParentIp(c) \o <<Min(Holders(c))>>
            /\ Len(ParentAfterStep(c).kids) = Len(ParentOf(c).kids)
            /\ Cardinality(InstancesOf(ParentAfterStep(c), RepeatedTagOf(c)))
                  = Cardinality(InstancesOf(ParentOf(c), RepeatedTagOf(c)))
            /\ \A i \in 1..Len(ParentOf(c).kids) :
                  i # Min(Holders(c)) => ParentAfterStep(c).kids[i] = ParentOf(c).kids[i]
            /\ \A i \in LastWriters(c) :
                  TextAt(ParentAfterStep(c).kids[Min(Holders(c))], <<Last(c.group[i].parts)>>)
                     \in {c.group[i].value, "<absent>"}

\* a group found its qualifier value in an instance an earlier group of the
\* pass had made, and wrote a value into it
C22_Witness ==
    \E c \in GroupCases :
        /\ MustReuse(c)
        /\ Min(Holders(c)) >= 2
        /\ \E i \in LastWriters(c) :
              /\ c.group[i].value # ""
              /\ TextAt(ParentAfterStep(c).kids[Min(Holders(c))], <<Last(c.group[i].parts)>>)
                    = c.group[i].value
              /\ TextAt(ParentOf(c).kids[Min(Holders(c))], <<Last(c.group[i].parts)>>)
                    # c.group[i].value

-----------------------------------------------------------------------------
\* Properties of the bare location form

\* the text is letters followed by digits only: the number of its letters,
\* 0 when it is not of this form
LettersOfBare(s) ==
    IF \E k \in 1..(Len(s) - 1) :
          (\A m \in 1..k : IsLetter(Ch(s, m))) /\ (\A m \in (k + 1)..Len(s) : IsDigit(Ch(s, m)))
    THEN CHOOSE k \in 1..(Len(s) - 1) :
          (\A m \in 1..k : IsLetter(Ch(s, m))) /\ (\A m \in (k + 1)..Len(s) : IsDigit(Ch(s, m)))
    ELSE 0

\* the P0 shorthand: P, 0, one digit, two digits
IsP0Shorthand(s) == Len(s) = 5 /\ SubSeq(s, 1, 2) = "P0" /\ LettersOfBare(s) = 1

\* a segment that starts with P0 starts with PO
Rewritten(seg) == IF Len(seg) >= 2 /\ SubSeq(seg, 1, 2) = "P0"
                  THEN "PO" \o SubSeq(seg, 3, Len(seg)) ELSE seg

\* the triple of the generic bare form for the letters and the digits
BareTriple(letters, digits) ==
    CASE Len(digits) >= 3 ->
           <<Rewritten(letters \o SubSeq(digits, 1, 1)),
             SubSeq(digits, Len(digits) - 1, Len(digits)), "">>
      [] Len(digits) = 2 /\ Len(letters) > 1 -> <<Rewritten(letters), digits, "">>
      [] Len(digits) = 2 /\ Len(letters) = 1 ->
           <<Rewritten(letters \o SubSeq(digits, 1, 1)), "0" \o SubSeq(digits, 2, 2), "">>
      [] OTHER -> <<Rewritten(letters), "0" \o digits, "">>

\* C23: for a text of letters followed by digits only, other than the P0
\* shorthand, the parser returns an empty qualifier and splits by the number
\* of digits: with three or more the first digit joins the segment and the
\* last two are the element; with two the group is the element when there is
\* more than one letter, else the first digit joins the segment and the
\* second is the element padded with a zero; with one the digit is the
\* padded element and the segment is the letters; a segment that starts with
\* P0 is rewritten to start with PO.
C23_BareForm ==
    (Parsed /\ LettersOfBare(Strip(edi_text)) # 0 /\ ~IsP0Shorthand(Strip(edi_text))) =>
        edi_out.triple =
            BareTriple(SubSeq(Strip(edi_text), 1, LettersOfBare(Strip(edi_text))),
                       SubSeq(Strip(edi_text), LettersOfBare(Strip(edi_text)) + 1,
                              Len(Strip(edi_text))))

\* bare texts of one, two and more digits were parsed, with one letter and
\* with more, and one whose segment was rewritten
C23_Witness ==
    /\ Parsed
    /\ \/ edi_text = "P012" /\ edi_out.triple = <<"PO", "12", "">>
       \/ edi_text = "N45" /\ edi_out.triple = <<"N4", "05", "">>
       \/ edi_text = "PID05" /\ edi_out.triple = <<"PID", "05", "">>
       \/ edi_text = "PID5" /\ edi_out.triple = <<"PID", "05", "">>
       \/ edi_text = "P04012" /\ edi_out.triple = <<"PO", "12", "">>

-----------------------------------------------------------------------------
\* Properties of a location with and without a qualifier

\* the qualifiers put after a bare location
PlainQualifiers == {"XX", "VN", "08"}

\* the bare locations s of which the parsed text is "s (Q)" or "s(Q)"
BaresOf(text, Q) ==
    {s \in Heads \cup BareHeads :
        /\ \E gap \in {"", " "} : Strip(text) = s \o gap \o "(" \o Q \o ")"
        /\ ParseEdiInfo(s)[1] # ""
        /\ ParseEdiInfo(s)[3] = ""}

\* the text "s (Q)" was parsed to the segment and element of s, with Q
SameAsBare(s, Q) ==
    edi_out.triple = <<ParseEdiInfo(s)[1], ParseEdiInfo(s)[2], Q>>

\* C30 as the specification states it: for every bare location s that the
\* parser maps to (seg, el, '') and every qualifier Q, the parser maps
\* 's (Q)' to (seg, el, Q), the P0 shorthand included.
C30_AsStated ==
    Parsed => \A Q \in PlainQualifiers : \A s \in BaresOf(edi_text, Q) : SameAsBare(s, Q)

\* C30, what the code does: the segment and the element of 's (Q)' are those
\* of s for every bare location other than the P0 shorthand; for the
\* shorthand P0xyy the qualified text gives segment PO and element yy, the
\* digit x is lost.
C30_ExceptShorthand ==
    Parsed => \A Q \in PlainQualifiers : \A s \in BaresOf(edi_text, Q) :
                IF MatchP0(s)
                THEN edi_out.triple = <<"PO", SubSeq(s, 4, 5), Q>>
                     /\ ParseEdiInfo(s)[1] = "PO" \o Ch(s, 3)
                ELSE SameAsBare(s, Q)

\* the shorthand was parsed with a qualifier
C30_WitnessShorthand ==
    Parsed /\ edi_text = "P0401 (XX)" /\ edi_out.triple = <<"PO", "01", "XX">>
    /\ ParseEdiInfo("P0401") = <<"PO4", "01", "">>

\* another bare location was parsed with a qualifier
C30_WitnessGeneric ==
    Parsed /\ edi_text = "PID123 (XX)" /\ edi_out.triple = <<"PID1", "23", "XX">>
    /\ ParseEdiInfo("PID123") = <<"PID1", "23", "">>

-----------------------------------------------------------------------------
\* Properties of the inherited qualifier

\* the cleared text is N104 (N103=<x>), in either case and with blanks
InheritForm(text) ==
    \E loc \in {"N104", "n104"}, sub \in {"N103", "n103"}, x \in {"92", "ZZ"} :
        IsPairForm(text, loc, sub, x)

\* the columns of the sheet that are read to the end of their cells and
\* whose cleared text has the form
InheritColumns ==
    {i \in 1..Len(sheet_items) :
        /\ CellErrors(sheet_cols[i], i + 1) = <<>>
        /\ InheritForm(ClearEdiInfo(Strip(sheet_cols[i].edi_info)))}

\* C24: a column whose cleared text has the form N104 (N103=<x>) gets
\* segment N1, element 04 and the qualifier of the item of the column just
\* before it when the segment of that item is N1; when there is no item
\* before it or its segment is not N1 (a column that failed to parse
\* included) the column gets a parsing error, is not resolved against the
\* catalog, and the scan goes on to the columns after it.
C24_InheritedQualifier ==
    /\ \A i \in InheritColumns :
          IF i > 1 /\ sheet_items[i - 1].edi_segment = "N1"
          THEN /\ sheet_items[i].edi_segment = "N1"
               /\ sheet_items[i].edi_element_number = "04"
               /\ sheet_items[i].edi_qualifier = sheet_items[i - 1].edi_qualifier
               /\ \A n \in 1..Len(sheet_items[i].parsing_errors) :
                     sheet_items[i].parsing_errors[n].msg
                        # "error_n104_missing_previous_qualifier"
          ELSE /\ sheet_items[i].parsing_errors
                    = <<ColumnError(i + 1, "error_n104_missing_previous_qualifier")>>
               /\ sheet_items[i].edi_segment = ""
               /\ sheet_items[i].edi_element_number = ""
               /\ sheet_items[i].edi_qualifier = ""
               /\ sheet_items[i].item_properties_id = 0
               /\ \E n \in 1..Len(sheet_errors) :
                     sheet_errors[n] = ColumnError(i + 1, "error_n104_missing_previous_qualifier")
    /\ sheet_out.done => Len(sheet_out.items) = Len(sheet_cols)

\* a column inherited the qualifier of the column before it
C24_WitnessInherited ==
    /\ Len(sheet_items) >= 2
    /\ 2 \in InheritColumns
    /\ sheet_items[1].edi_qualifier = "VN"
    /\ sheet_items[2].edi_segment = "N1"
    /\ sheet_items[2].edi_qualifier = "VN"

\* a column of the form came after a column that failed to parse, got the
\* error, and a column after it was scanned
C24_WitnessError ==
    /\ sheet_out.done
    /\ Len(sheet_items) = 3
    /\ 2 \in InheritColumns
    /\ sheet_items[1].edi_segment = ""
    /\ sheet_items[1].parsing_errors # <<>>
    /\ sheet_items[2].parsing_errors
          = <<ColumnError(3, "error_n104_missing_previous_qualifier")>>
    /\ sheet_items[3].edi_segment = "PO1"

-----------------------------------------------------------------------------
\* Properties of the quantities of the pack split

\* the pack split acts on a first quantity that is a number
SplitsNumber ==
    /\ kind = "856c" /\ stage = "detail" /\ stage' = "split"
    /\ IsNumeral(Strip(FirstQty(root, FirstPack(root))))

\* the quantity before the split, and the sum of the quantities of the two
\* pack blocks after it, in units of the last decimal of the quantity
QtyBefore == NumberOf(Strip(FirstQty(root, FirstPack(root))))
QtyAfter ==
    NumberOf(FirstQty(root', FirstPack(root)))
        + NumberOf(FirstQty(root', NextSibling(FirstPack(root))))

\* C27 as the specification states it: whenever the split acts on a pack
\* block whose first ItemLevel has the numeric quantity q, the quantities
\* written into the two resulting blocks add up to q.
C27_AsStated == [][SplitsNumber => QtyAfter = QtyBefore]_vars

\* C27, what the code does: both blocks get the same rounded half, so the sum
\* is q when the last digit of q is even and differs from q by one unit of
\* the last decimal (one whole unit for a quantity without a point) when it
\* is odd.
C27_ConservedWhenEven ==
    [][SplitsNumber =>
          /\ FirstQty(root', NextSibling(FirstPack(root))) = FirstQty(root', FirstPack(root))
          /\ IF QtyBefore % 2 = 0 THEN QtyAfter = QtyBefore
             ELSE QtyAfter \in {QtyBefore - 1, QtyBefore + 1}]_vars

\* the quantity 5 was split into 2 and 2
C27_WitnessOdd ==
    /\ kind = "856c" /\ stage = "split"
    /\ Len(parsed_items) = 1 /\ parsed_items[1].tli_value = "5"
    /\ PacksOfBlock(root, 1) = 2
    /\ NumberOf(FirstQty(root, FirstPack(root)))
         + NumberOf(FirstQty(root, NextSibling(FirstPack(root)))) = 4

\* the quantity 10 was split into 5 and 5
C27_WitnessEven ==
    /\ kind = "856c" /\ stage = "split"
    /\ Len(parsed_items) = 1 /\ parsed_items[1].tli_value = "10"
    /\ PacksOfBlock(root, 1) = 2
    /\ FirstQty(root, FirstPack(root)) = "5"
    /\ FirstQty(root, NextSibling(FirstPack(root))) = "5"

-----------------------------------------------------------------------------
(* The catalog: create_item, update_item and delete_item of Database *)

MaxCatCalls == 3    \* most calls made on one catalog

\* a row of item_properties: the columns of the unique combination, and
\* TLI_value for the columns that carry no constraint
CatRow(id, seg, el, qual, tli) ==
    [item_properties_id |-> id, edi_segment |-> seg, edi_element_number |-> el,
     edi_qualifier |-> qual, TLI_value |-> tli]

\* "normalized_qualifier = (edi_qualifier or '').strip()"
NormalizedQualifier(edi_qualifier) == Strip(OrEmpty(edi_qualifier))

\* a faulty variant of Coalesce that compares the column as it is stored:
\* the uniqueness property C25 must tell it from the code
CoalesceNone(edi_qualifier) == edi_qualifier

\* COALESCE(edi_qualifier, '')
Coalesce(edi_qualifier) == IF edi_qualifier = Null THEN "" ELSE edi_qualifier

\* the rows of "SELECT item_properties_id FROM item_properties WHERE
\* edi_segment = ? AND edi_element_number = ? AND COALESCE(edi_qualifier, '') = ?"
ExistingItems(rows, seg, el, normalized_qualifier) ==
    {r \in rows : /\ r.edi_segment = seg
                  /\ r.edi_element_number = el
                  /\ Coalesce(r.edi_qualifier) = normalized_qualifier}

\* the outcome of a call: what it returned or that it raised
\* DuplicateItemError, the arguments, and the rows before the call
CatCall(op, raised, result, args, before) ==
    [done |-> TRUE, op |-> op, raised |-> raised, result |-> result, args |-> args,
     before |-> before]

\* the arguments of a call
CatArgs(id, seg, el, qual, tli) ==
    [item_id |-> id, edi_segment |-> seg, edi_element_number |-> el,
     edi_qualifier |-> qual, TLI_value |-> tli]

\* Database.create_item
create_item(seg, el, qual, tli) ==
    /\ cat_calls < MaxCatCalls
    /\ cat_calls' = cat_calls + 1
    /\ IF ExistingItems(cat_rows, seg, el, NormalizedQualifier(qual)) # {}
       THEN /\ cat_out' = CatCall("create_item", TRUE, 0, CatArgs(0, seg, el, qual, tli), cat_rows)
            /\ UNCHANGED <<cat_rows, cat_seq>>
       ELSE /\ cat_rows' = cat_rows
                  \cup {CatRow(cat_seq + 1, seg, el, NormalizedQualifier(qual), tli)}
            /\ cat_seq' = cat_seq + 1
            /\ cat_out' = CatCall("create_item", FALSE, cat_seq + 1,
                                  CatArgs(0, seg, el, qual, tli), cat_rows)
    /\ UNCHANGED <<db_rows, db_item, db_out, uiVars, xmlVars, csvVars, ediVars>>

\* Database.update_item: the check leaves out the row of item_id; the UPDATE
\* changes the row of item_id when there is one
update_item(id, seg, el, qual, tli) ==
    /\ cat_calls < MaxCatCalls
    /\ cat_calls' = cat_calls + 1
    /\ IF {r \in ExistingItems(cat_rows, seg, el, NormalizedQualifier(qual)) :
              r.item_properties_id # id} # {}
       THEN /\ cat_out' = CatCall("update_item", TRUE, FALSE,
                                  CatArgs(id, seg, el, qual, tli), cat_rows)
            /\ UNCHANGED cat_rows
       ELSE /\ cat_rows' = {IF r.item_properties_id = id
                            THEN CatRow(id, seg, el, NormalizedQualifier(qual), tli)
                            ELSE r : r \in cat_rows}
            /\ cat_out' = CatCall("update_item", FALSE,
                                  \E r \in cat_rows : r.item_properties_id = id,
                                  CatArgs(id, seg, el, qual, tli), cat_rows)
    /\ UNCHANGED <<cat_seq, db_rows, db_item, db_out, uiVars, xmlVars, csvVars, ediVars>>

\* Database.delete_item
delete_item(id) ==
    /\ cat_calls < MaxCatCalls
    /\ cat_calls' = cat_calls + 1
    /\ cat_rows' = {r \in cat_rows : r.item_properties_id # id}
    /\ cat_out' = CatCall("delete_item", FALSE, \E r \in cat_rows : r.item_properties_id = id,
                          CatArgs(id, "", 0, "", ""), cat_rows)
    /\ UNCHANGED <<cat_seq, db_rows, db_item, db_out, uiVars, xmlVars, csvVars, ediVars>>

\* the catalogs a run starts from, none with two rows of one combination: an
\* empty table, rows written by create_item, and rows of an older database
\* with a NULL qualifier
StartCatalogs ==
    { {},
      {CatRow(1, "N1", 4, "VN", "Vendor")},
      {CatRow(1, "N1", 4, Null, "Name"), CatRow(2, "PO1", 4, "", "Line")},
      {CatRow(1, "N1", 4, "VN", "Vendor"), CatRow(3, "N1", 4, "", "Name")} }

\* the arguments of the calls
CatSegments == {"N1", "PO1"}
CatQualifiers == {Null, "", " ", "VN", " VN "}
CatIds == 1..3

InitCat ==
    /\ cat_rows \in StartCatalogs
    /\ cat_seq = 3
    /\ cat_out = NoItem
    /\ cat_calls = 0
    /\ db_rows = {} /\ db_item = NoItem /\ db_out = NoItem /\ UiAtRest
    /\ XmlAtRest /\ CsvAtRest /\ EdiAtRest

NextCat ==
    \/ \E seg \in CatSegments, qual \in CatQualifiers : create_item(seg, 4, qual, "New")
    \/ \E id \in CatIds, seg \in CatSegments, qual \in CatQualifiers :
          update_item(id, seg, 4, qual, "Changed")
    \/ \E id \in CatIds : delete_item(id)

SpecCat == InitCat /\ [][NextCat]_vars

-----------------------------------------------------------------------------
\* Properties of the catalog

\* two rows share the combination, a NULL qualifier being the empty one
SameCombination(r1, r2) ==
    /\ r1.edi_segment = r2.edi_segment
    /\ r1.edi_element_number = r2.edi_element_number
    /\ (IF r1.edi_qualifier = Null THEN "" ELSE r1.edi_qualifier)
         = (IF r2.edi_qualifier = Null THEN "" ELSE r2.edi_qualifier)

NoDuplicates(rows) ==
    \A r1 \in rows, r2 \in rows :
        r1.item_properties_id # r2.item_properties_id => ~SameCombination(r1, r2)

\* the row the call asks for, with the qualifier as it would be stored
AskedRow(call) ==
    CatRow(call.args.item_id, call.args.edi_segment, call.args.edi_element_number,
           Strip(IF call.args.edi_qualifier = Null THEN "" ELSE call.args.edi_qualifier),
           call.args.TLI_value)

\* the call, carried out, would leave two rows of one combination
WouldDuplicate(call) ==
    /\ call.op \in {"create_item", "update_item"}
    /\ call.op = "update_item" => \E r \in call.before : r.item_properties_id = call.args.item_id
    /\ \E r \in call.before :
          /\ r.item_properties_id # call.args.item_id
          /\ SameCombination(r, AskedRow(call))

\* C25: from a catalog without duplicates, after any sequence of
\* create_item, update_item and delete_item calls no two rows share
\* (edi_segment, edi_element_number, qualifier), a NULL and an empty
\* qualifier being equal; a create_item or update_item call that would
\* produce such a pair raises DuplicateItemError and leaves the catalog as
\* it was.
C25_CatalogUnique ==
    /\ NoDuplicates(cat_rows)
    /\ \A r1 \in cat_rows, r2 \in cat_rows :
          r1.item_properties_id = r2.item_properties_id => r1 = r2
    /\ cat_out.done =>
          /\ WouldDuplicate(cat_out) => cat_out.raised
          /\ cat_out.raised => cat_rows = cat_out.before

\* a create_item call and an update_item call were refused: the qualifier
\* asked for was empty or padded and the row in the way had a NULL qualifier
\* or the bare one
C25_Witness ==
    /\ cat_out.done
    /\ cat_out.raised
    /\ WouldDuplicate(cat_out)
    /\ \/ /\ cat_out.op = "create_item"
          /\ cat_out.args.edi_qualifier = ""
          /\ \E r \in cat_rows : r.edi_segment = "N1" /\ r.edi_qualifier = Null
       \/ /\ cat_out.op = "update_item"
          /\ cat_out.args.edi_qualifier = " VN "
          /\ \E r \in cat_rows : r.edi_qualifier = "VN"
                                 /\ r.item_properties_id # cat_out.args.item_id

\* a row was written after a delete made room for its combination
C25_WitnessAccepted ==
    /\ cat_out.done
    /\ cat_out.op = "create_item"
    /\ ~cat_out.raised
    /\ cat_calls >= 2
    /\ \E r \in cat_rows : r.item_properties_id = cat_out.result /\ r.edi_qualifier = "VN"
    /\ Cardinality(cat_rows) = 2

-----------------------------------------------------------------------------
\* Properties of the instance made for a group

\* the texts of the elements of n that are not blank, comments left out
TextsIn(n) ==
    {Get(n, Iter(n)[k]).text : k \in {j \in 1..Len(Iter(n)) : ~IsComment(Get(n, Iter(n)[j]))}}
        \ {""}

\* the instance made for the group of the case, after the values of the
\* group are written
MadeInstance(c) == Last(ParentAfterStep(c).kids)

\* the values the pass writes for a group
ValuesOf(group) == {group[i].value : i \in 1..Len(group)}

\* C26 as the specification states it: the instance of the repeated
\* container made for one group holds, besides its qualifier, only values
\* written by the items of that group: no text in it is a value the same
\* pass wrote for a different group.
C26_AsStated ==
    \A c \in GroupCases :
        MustCreate(c) => TextsIn(MadeInstance(c)) \subseteq {c.key[3]} \cup ValuesOf(c.group)

\* the first instance of the repeated tag under the parent of the case, as
\* it is when the step of the group begins
FirstInstance(c) == ParentOf(c).kids[FirstChild(ParentOf(c), RepeatedTagOf(c))]

\* C26, what the code does: the instance made for a group is a copy of the
\* first instance as the groups before it left it, so besides its qualifier
\* and the values of its group it holds every text of the first instance
\* that the group does not overwrite; it is free of other values exactly
\* when no group before it has used the first instance.
C26_CopiesFirstInstance ==
    \A c \in GroupCases :
        MustCreate(c) =>
            /\ TextsIn(MadeInstance(c)) \subseteq
                  {c.key[3]} \cup ValuesOf(c.group)
                    \cup (IF FirstChild(ParentOf(c), RepeatedTagOf(c)) = 0 THEN {}
                          ELSE TextsIn(FirstInstance(c)))
            /\ (FirstChild(ParentOf(c), RepeatedTagOf(c)) # 0
                 /\ TextsIn(FirstInstance(c)) = {})
                  => TextsIn(MadeInstance(c)) \subseteq {c.key[3]} \cup ValuesOf(c.group)

\* the group of the status IR got a copy of the acknowledgement that the
\* group of the status IA had used: it holds the quantity 5 of that group
C26_WitnessLeak ==
    \E c \in GroupCases :
        /\ MustCreate(c)
        /\ c.key[3] = "IR"
        /\ ValuesOf(c.group) = {"D-1"}
        /\ TextAt(FirstInstance(c), <<"ItemScheduleQty">>) = "5"
        /\ TextAt(MadeInstance(c), <<"ItemStatusCode">>) = "IR"
        /\ TextAt(MadeInstance(c), <<"ItemScheduleDate">>) = "D-1"
        /\ TextAt(MadeInstance(c), <<"ItemScheduleQty">>) = "5"

\* a group got a copy of a first instance no group had used
C26_WitnessClean ==
    \E c \in GroupCases :
        /\ MustCreate(c)
        /\ FirstChild(ParentOf(c), RepeatedTagOf(c)) # 0
        /\ TextsIn(FirstInstance(c)) = {}
        /\ TextsIn(MadeInstance(c)) = {c.key[3]} \cup ValuesOf(c.group)
        /\ Len(c.group) >= 1

-----------------------------------------------------------------------------
(* The three input blocks of the main window: MainWindow.select_spreadsheet,
   select_tnc_platform, select_csv_archive, _refresh_all_parsing,
   _open_artifact_settings, change_language and process_data *)

\* Optional[bool] of a parse status: None is Null
Status(b) == IF b THEN "True" ELSE "False"

\* what SpreadsheetParser.parse returns for the spreadsheets on disk: the
\* items and the success flag
SheetFiles ==
    [name : {"one.xlsx"}, items : {<<[tli_value |-> "V{sequential_number}"]>>}, success : {TRUE}]
    \cup [name : {"two.xlsx"}, items : {<<[tli_value |-> "X"], [tli_value |-> "Y"]>>},
          success : {TRUE}]
    \cup [name : {"other.xlsx"}, items : {<<[tli_value |-> "A,B"], [tli_value |-> "Y"]>>},
          success : {TRUE}]
    \cup [name : {"bad.xlsx"}, items : {<<[tli_value |-> "Z"]>>}, success : {FALSE}]

\* what TOMMMParser.parse returns for the scenario pages on disk: the fresh
\* scenarios and whether an error message came with them
PageFiles ==
    [name : {"p1.mhtml"}, scenarios : {<<Scn(850, "PO1", FALSE, FALSE)>>}, error : {FALSE}]
    \cup [name : {"p2.mhtml"},
          scenarios : {<<Scn(850, "PO1", FALSE, FALSE), Scn(850, "PO2", FALSE, FALSE)>>},
          error : {FALSE}]
    \cup [name : {"none.mhtml"}, scenarios : {<<>>}, error : {TRUE}]

\* a design for the key with one TLI row of the given cells
Design(name, key, tli_row) ==
    [name |-> name, rows |-> <<OrderHeaderRow(key, "00"), <<"LineItem_OrderLine", "x">>, tli_row>>]

\* the archives on disk: a design of two blank cells, one of one blank cell,
\* and archives for two keys
ArchiveFiles ==
    [name : {"a.zip"}, files : {<<Design("PO850_a.csv", "PO1", <<"TLI", "", "keep", " ">>)>>}]
    \cup [name : {"g.zip"}, files : {<<Design("PO850_g.csv", "PO1", <<"TLI", "">>)>>}]
    \cup [name : {"gb.zip"}, files : {<<Design("PO850_g.csv", "PO1", <<"TLI", "">>),
                                        Design("PO850_b.csv", "PO2", <<"TLI", "", "k">>)>>}]

\* the file of the name
FileOf(files, name) == CHOOSE f \in files : f.name = name

Names(files) == {f.name : f \in files}

\* the window after __init__, before auto_fill_from_input
NewWindow ==
    [spreadsheet_path |-> Null, parsed_items |-> <<>>, spreadsheet_parse_success |-> Null,
     tnc_platform_path |-> Null, parsed_scenarios |-> <<>>, tnc_parse_success |-> Null,
     csv_archive_path |-> Null, csv_archive_parse_success |-> Null,
     csv_archive_parse_error |-> Null,
     csv_inbound_settings |-> <<>>, settings_enabled |-> FALSE]

\* MainWindow._parse_spreadsheet
ParseSpreadsheet(w) ==
    IF w.spreadsheet_path = Null THEN w
    ELSE [w EXCEPT !.parsed_items = FileOf(SheetFiles, w.spreadsheet_path).items,
                   !.spreadsheet_parse_success =
                       Status(FileOf(SheetFiles, w.spreadsheet_path).success)]

\* MainWindow._parse_tnc_file: parsed_scenarios are the fresh scenarios of
\* the page
ParseTncFile(w) ==
    IF w.tnc_platform_path = Null THEN w
    ELSE [w EXCEPT !.parsed_scenarios = FileOf(PageFiles, w.tnc_platform_path).scenarios,
                   !.tnc_parse_success =
                       Status(~FileOf(PageFiles, w.tnc_platform_path).error
                              /\ Len(FileOf(PageFiles, w.tnc_platform_path).scenarios) > 0)]

\* MainWindow._get_csv_inbound_enabled_mask: the saved flags when they are as
\* many as the items, else every item enabled
GetCsvInboundEnabledMask(w) ==
    IF Len(w.csv_inbound_settings) = Len(w.parsed_items) THEN w.csv_inbound_settings
    ELSE [i \in 1..Len(w.parsed_items) |-> TRUE]

\* MainWindow._get_csv_items_for_generation: the items, the value of a
\* disabled one emptied
GetCsvItemsForGeneration(w) ==
    [i \in 1..Len(w.parsed_items) |->
        IF GetCsvInboundEnabledMask(w)[i] THEN w.parsed_items[i] ELSE [tli_value |-> ""]]

\* the loop of CSVArchiveParser.parse over csv_files from position pos on:
\* the scenarios, the errors and the updated scenarios at its end
RECURSIVE ArchiveLoop(_, _, _, _, _, _)
ArchiveLoop(files, pos, scens, errors, updated, items) ==
    IF pos > Len(CsvFiles(files))
    THEN [scenarios |-> scens, errors |-> errors, updated |-> updated]
    ELSE ArchiveLoop(files, pos + 1,
                     FileScenarios(CsvFiles(files)[pos], scens, items),
                     errors \o FileErrors(CsvFiles(files)[pos], scens, items),
                     updated \cup ({TargetOf(CsvFiles(files)[pos], scens)} \ {0}),
                     items)

\* the window after parser.parse(csv_archive_path, parsed_scenarios, items)
\* ran the loop to st
AfterArchive(w, files, st) ==
    [w EXCEPT !.parsed_scenarios = st.scenarios,
              !.csv_archive_parse_success =
                  Status(Returned(files, st.errors, st.updated, st.scenarios).success),
              !.csv_archive_parse_error =
                  IF Returned(files, st.errors, st.updated, st.scenarios).success
                  THEN Null ELSE "parse"]

\* MainWindow._parse_csv_archive
ParseCsvArchive(w) ==
    IF w.csv_archive_path = Null THEN w
    ELSE IF w.parsed_scenarios = <<>>
    THEN [w EXCEPT !.csv_archive_parse_success = "False",
                   !.csv_archive_parse_error = "csv_no_scenarios"]
    ELSE AfterArchive(w, FileOf(ArchiveFiles, w.csv_archive_path).files,
                      ArchiveLoop(FileOf(ArchiveFiles, w.csv_archive_path).files, 1,
                                  w.parsed_scenarios, <<>>, {},
                                  IF w.spreadsheet_parse_success = "True"
                                  THEN GetCsvItemsForGeneration(w) ELSE <<>>))

\* whether the body of the loop of _regenerate_csv_test_files raises for
\* the scenario
RegenerateRaises(scenario, items) ==
    scenario.csv_design # <<>> /\ GenerateCsvTestFile(scenario.csv_design, items).raised

\* the scenario after the body of the loop of _regenerate_csv_test_files:
\* skipped without a design, left as it was when the generation raised
Regenerated(scenario, items) ==
    IF scenario.csv_design = <<>> \/ RegenerateRaises(scenario, items) THEN scenario
    ELSE [scenario EXCEPT !.csv_test_file = GenerateCsvTestFile(scenario.csv_design, items).lines]

\* MainWindow._regenerate_csv_test_files
RegenerateCsvTestFiles(w) ==
    IF w.parsed_scenarios = <<>> \/ w.parsed_items = <<>> THEN w
    ELSE [w EXCEPT
            !.parsed_scenarios =
                [i \in 1..Len(w.parsed_scenarios) |->
                    Regenerated(w.parsed_scenarios[i], GetCsvItemsForGeneration(w))],
            !.csv_archive_parse_success =
                IF \E i \in 1..Len(w.parsed_scenarios) :
                      RegenerateRaises(w.parsed_scenarios[i], GetCsvItemsForGeneration(w))
                THEN "False" ELSE @,
            !.csv_archive_parse_error =
                IF \E i \in 1..Len(w.parsed_scenarios) :
                      RegenerateRaises(w.parsed_scenarios[i], GetCsvItemsForGeneration(w))
                THEN "regenerating" ELSE @]

\* MainWindow.update_process_button_state and _update_artifact_checkboxes_state:
\* the settings button of the CSV test files is enabled when all three
\* parses succeeded
UpdateProcessButtonState(w) ==
    [w EXCEPT !.settings_enabled = /\ w.spreadsheet_parse_success = "True"
                                   /\ w.tnc_parse_success = "True"
                                   /\ w.csv_archive_parse_success = "True"]

\* MainWindow._refresh_spreadsheet_parsing, after _parse_spreadsheet
RegenerateIfParsed(w) ==
    IF /\ w.csv_archive_parse_success = "True" /\ w.tnc_parse_success = "True"
       /\ w.spreadsheet_parse_success = "True" /\ w.csv_archive_path # Null
    THEN RegenerateCsvTestFiles(w) ELSE w

RefreshSpreadsheetParsing(w) ==
    IF w.spreadsheet_path = Null THEN w ELSE RegenerateIfParsed(ParseSpreadsheet(w))

\* MainWindow._refresh_tnc_parsing
RefreshTncParsing(w) == ParseTncFile(w)

\* MainWindow._refresh_csv_archive_parsing
RefreshCsvArchiveParsing(w) == ParseCsvArchive(w)

\* MainWindow.select_spreadsheet: the dialog gave a path, or Null
SelectSpreadsheet(w, file_path) ==
    IF file_path # Null
    THEN UpdateProcessButtonState(ParseSpreadsheet([w EXCEPT !.spreadsheet_path = file_path]))
    ELSE UpdateProcessButtonState([w EXCEPT !.spreadsheet_path = Null, !.parsed_items = <<>>,
                                            !.spreadsheet_parse_success = Null])

\* MainWindow.select_tnc_platform
SelectTncPlatform(w, file_path) ==
    IF file_path # Null
    THEN UpdateProcessButtonState(ParseTncFile([w EXCEPT !.tnc_platform_path = file_path]))
    ELSE UpdateProcessButtonState([w EXCEPT !.tnc_platform_path = Null,
                                            !.parsed_scenarios = <<>>,
                                            !.tnc_parse_success = Null])

\* MainWindow.select_csv_archive
SelectCsvArchive(w, file_path) ==
    IF file_path # Null
    THEN UpdateProcessButtonState(ParseCsvArchive([w EXCEPT !.csv_archive_path = file_path]))
    ELSE UpdateProcessButtonState([w EXCEPT !.csv_archive_path = Null,
                                            !.csv_archive_parse_success = Null,
                                            !.csv_archive_parse_error = Null])

\* MainWindow.change_language to the other language: the archive is parsed
\* again only when its status was success before the page was parsed
ReparseArchiveIf(was_parsed, w) ==
    IF was_parsed /\ w.csv_archive_path # Null /\ w.parsed_scenarios # <<>>
    THEN ParseCsvArchive(w) ELSE w

ChangeLanguage(w) ==
    ReparseArchiveIf(w.csv_archive_parse_success = "True", ParseTncFile(ParseSpreadsheet(w)))

\* MainWindow.auto_fill_from_input, for the files InputFileFinder found
AutoFillArchive(w, csv_archive_path) ==
    IF csv_archive_path = Null THEN w
    ELSE IF w.parsed_scenarios # <<>>
    THEN ParseCsvArchive([w EXCEPT !.csv_archive_path = csv_archive_path])
    ELSE [w EXCEPT !.csv_archive_path = csv_archive_path,
                   !.csv_archive_parse_success = "False",
                   !.csv_archive_parse_error = "csv_no_scenarios"]

AutoFillPage(w) ==
    IF w.tnc_platform_path = Null THEN w ELSE ParseCsvArchive(ParseTncFile(w))

AutoFillFromInput(w, spreadsheet_path, tnc_platform_path, csv_archive_path) ==
    UpdateProcessButtonState(
        AutoFillPage(
            [AutoFillArchive(ParseSpreadsheet([w EXCEPT !.spreadsheet_path = spreadsheet_path]),
                             csv_archive_path)
                EXCEPT !.tnc_platform_path = tnc_platform_path]))

\* MainWindow._generate_csv_test_files: the files of the folder, each holding
\* the text of the last scenario that names it
CsvTestFiles(scens) ==
    {[name |-> scens[i].csv_design_filename, text |-> scens[i].csv_test_file] :
        i \in {j \in 1..Len(scens) :
                 /\ scens[j].csv_test_file # <<>> /\ scens[j].csv_design_filename # ""
                 /\ \A k \in (j + 1)..Len(scens) :
                       scens[k].csv_test_file # <<>> =>
                           scens[k].csv_design_filename # scens[j].csv_design_filename}}

\* the window is built: the input folder held any of the files
InitUi ==
    /\ \E s \in Names(SheetFiles) \cup {Null}, p \in Names(PageFiles) \cup {Null},
          z \in Names(ArchiveFiles) \cup {Null} :
          window = AutoFillFromInput(NewWindow, s, p, z)
    /\ output = {}
    /\ db_rows = {} /\ db_item = NoItem /\ db_out = NoItem /\ CatAtRest
    /\ XmlAtRest /\ CsvAtRest /\ EdiAtRest

UiUnchanged == UNCHANGED <<db_rows, db_item, db_out, catVars, xmlVars, csvVars, ediVars>>

select_spreadsheet ==
    /\ output = {}
    /\ \E file_path \in Names(SheetFiles) \cup {Null} :
          window' = SelectSpreadsheet(window, file_path)
    /\ UNCHANGED output /\ UiUnchanged

select_tnc_platform ==
    /\ output = {}
    /\ \E file_path \in Names(PageFiles) \cup {Null} :
          window' = SelectTncPlatform(window, file_path)
    /\ UNCHANGED output /\ UiUnchanged

select_csv_archive ==
    /\ output = {}
    /\ \E file_path \in Names(ArchiveFiles) \cup {Null} :
          window' = SelectCsvArchive(window, file_path)
    /\ UNCHANGED output /\ UiUnchanged

\* the refresh button: the three blocks in turn
refresh_all_parsing ==
    /\ output = {}
    /\ window' = RefreshCsvArchiveParsing(RefreshTncParsing(RefreshSpreadsheetParsing(window)))
    /\ UNCHANGED output /\ UiUnchanged

\* the settings dialog of the CSV test files is accepted with a flag for
\* every item
open_artifact_settings ==
    /\ output = {}
    /\ window.settings_enabled
    /\ \E enabled_items \in [1..Len(window.parsed_items) -> BOOLEAN] :
          window' = RegenerateCsvTestFiles([window EXCEPT !.csv_inbound_settings = enabled_items])
    /\ UNCHANGED output /\ UiUnchanged

change_language ==
    /\ output = {}
    /\ window' = ChangeLanguage(window)
    /\ UNCHANGED output /\ UiUnchanged

\* the process button, the fields filled and the CSV test files asked for:
\* the output folder is emptied and the CSV test files are written; the
\* window is followed up to the first run that writes a file
process_data ==
    /\ output = {}
    /\ window.spreadsheet_path # Null
    /\ window.tnc_platform_path # Null
    /\ window.csv_archive_path # Null
    /\ output' = CsvTestFiles(window.parsed_scenarios)
    /\ UNCHANGED window /\ UiUnchanged

NextUi ==
    \/ select_spreadsheet
    \/ select_tnc_platform
    \/ select_csv_archive
    \/ refresh_all_parsing
    \/ open_artifact_settings
    \/ change_language
    \/ process_data

SpecUi == InitUi /\ [][NextUi]_vars

-----------------------------------------------------------------------------
(* Properties of the stored CSV test text *)

\* the stored text of the scenario is what the filler makes of its design
\* and the items of the window now
IsCurrentText(w, scenario) ==
    /\ ~GenerateCsvTestFile(scenario.csv_design, GetCsvItemsForGeneration(w)).raised
    /\ scenario.csv_test_file =
           GenerateCsvTestFile(scenario.csv_design, GetCsvItemsForGeneration(w)).lines

\* the scenarios whose stored text process_data would write
Writable(w) ==
    {i \in 1..Len(w.parsed_scenarios) :
        /\ w.parsed_scenarios[i].csv_test_file # <<>>
        /\ w.parsed_scenarios[i].csv_design_filename # ""}

\* C28: after any sequence of operations of the window, a stored csv_test_file
\* that is not empty equals the filling of the scenario's current CSV design
\* with the current items, the disabled ones blanked; and after a regeneration
\* that failed with a counting mismatch no scenario whose filling fails keeps
\* a text that process_data would write
C28_AsStated ==
    /\ \A i \in 1..Len(window.parsed_scenarios) :
          window.parsed_scenarios[i].csv_test_file # <<>> =>
              IsCurrentText(window, window.parsed_scenarios[i])
    /\ window.csv_archive_parse_error = "regenerating" =>
          \A i \in Writable(window) :
              ~RegenerateRaises(window.parsed_scenarios[i], GetCsvItemsForGeneration(window))

\* the text is stale after another spreadsheet was selected: the stored text
\* is the filling with the items of two.xlsx while the window holds the items
\* of other.xlsx, and the status of the archive still reads success
C28_WitnessStaleAfterSelect ==
    /\ window.spreadsheet_path = "other.xlsx"
    /\ window.csv_archive_parse_success = "True"
    /\ Len(window.parsed_scenarios) = 1
    /\ window.parsed_scenarios[1].csv_test_file # <<>>
    /\ window.parsed_scenarios[1].csv_test_file =
           GenerateCsvTestFile(window.parsed_scenarios[1].csv_design,
                               FileOf(SheetFiles, "two.xlsx").items).lines
    /\ ~IsCurrentText(window, window.parsed_scenarios[1])

\* process_data wrote a text although the regeneration before it failed with
\* a counting mismatch for that scenario
C28_WitnessStaleWritten ==
    /\ window.csv_archive_parse_error = "regenerating"
    /\ \E i \in Writable(window) :
          /\ RegenerateRaises(window.parsed_scenarios[i], GetCsvItemsForGeneration(window))
          /\ [name |-> window.parsed_scenarios[i].csv_design_filename,
              text |-> window.parsed_scenarios[i].csv_test_file] \in output

\* what the code keeps: right after the archive is parsed with success, every
\* stored text is current
C28_CurrentWhenParsed ==
    [][\A file_path \in Names(ArchiveFiles) :
          (window' = SelectCsvArchive(window, file_path)
           /\ window'.csv_archive_parse_success = "True")
          => \A i \in 1..Len(window'.parsed_scenarios) :
                window'.parsed_scenarios[i].csv_test_file # <<>> =>
                    IsCurrentText(window', window'.parsed_scenarios[i])]_vars

-----------------------------------------------------------------------------
(* Properties of the status of the CSV archive *)

\* the scenario has a design attached, with the counts taken from it
HasCsvData(scenario) ==
    /\ scenario.csv_design # <<>>
    /\ scenario.number_of_tli =
           Cardinality({p \in 1..Len(scenario.csv_design) : IsTliRow(scenario.csv_design[p])})
    /\ scenario.number_of_lines =
           Cardinality({p \in 1..Len(scenario.csv_design) :
                          Len(scenario.csv_design[p]) > 0
                          /\ scenario.csv_design[p][1] = "LineItem_OrderLine"})

\* C29: after any sequence of operations of the window, whenever the parse
\* status of the CSV archive is success, every scenario of the current list
\* has a CSV design attached, with number_of_lines and number_of_tli taken
\* from it
C29_AsStated ==
    window.csv_archive_parse_success = "True" =>
        \A i \in 1..Len(window.parsed_scenarios) : HasCsvData(window.parsed_scenarios[i])

\* the page was selected again after the archive was parsed: the scenarios
\* are fresh and the status of the archive still reads success
C29_WitnessFreshUnderSuccess ==
    /\ window.csv_archive_parse_success = "True"
    /\ window.tnc_parse_success = "True"
    /\ window.parsed_scenarios # <<>>
    /\ \A i \in 1..Len(window.parsed_scenarios) :
          window.parsed_scenarios[i].csv_design = <<>>

=============================================================================
